---- MODULE Spec2Model ----
(***************************************************************************)
(* A model of sharp_mfp_export.py: the token-form HTTP client (SharpMFP),  *)
(* the retry wrapper (request_with_retry), the fleet orchestrator          *)
(* (download_exports) and the job-log upsert (sync_csv_to_db).             *)
(*                                                                         *)
(* Spec          one or more fleet runs, one HTTP request per step.        *)
(* SpecLive      the default run with its thread scheduled fairly.         *)
(* SpecIngest    job-log CSV files ingested into the job_logs table.       *)
(* SpecCleanup   cleanup_old_exports on export directories of any content. *)
(* SpecTriggers  the triggers of runs, the lock and the audit log.         *)
(* SpecWeb       the requests to /update_data of the web process alone.    *)
(* SpecCoerce    safe_int on cells of any text.                            *)
(* SpecParse     rows of the localized and of the English export parsed.   *)
(* SpecReport    the aggregated report of the job logs of the printers.    *)
(* SpecCache     a CSV file rewritten and removed while it is read.        *)
(* SpecCounts    user-count files ingested and the latest snapshot asked.  *)
(* SpecStore     the ingests of one run, INSERT statements failing.        *)
(* SpecLatest    latest_export_file on export directories of any content.  *)
(***************************************************************************)
EXTENDS Integers, Sequences, FiniteSets, TLC

VARIABLES
    \* ---- fleet run (download_exports) ----
    pc,        \* position of the single thread of the run
    runs,      \* number of runs started so far
    selected,  \* the printers of the current run, in order
    idx,       \* index into selected of the printer being processed
    trace,     \* stages entered for the current printer, in order
    client,    \* local variable client: the SharpMFP object and its session
    \* ---- request_with_retry, the call in progress or last finished ----
    op,        \* the wrapped operation
    attempt,   \* loop variable i
    last,      \* local variable last
    calls,     \* number of invocations of the wrapped operation in this call
    sleeps,    \* durations passed to time.sleep by this call, in order
    retState,  \* "none" | "running" | "returned" | "raised"
    result,    \* value returned by the call
    raised,    \* exception that left the call
    \* ---- SharpMFP method in progress ----
    tok1,      \* local token1
    tok2,      \* local token2
    reqlog,    \* the HTTP requests sent by the current invocation, in order
    \* ---- environment ----
    files,     \* export directories: the names of the artifacts present
    now,       \* wall clock, whole seconds
    \* ---- job-log store (sync_csv_to_db) ----
    job_logs,  \* rows of table job_logs, in insertion order
    csv,       \* the exported CSV file being ingested (its parsed rows)
    ingests,   \* how often csv was ingested for printer ingPrinter
    ingPrinter,
    before,    \* job_logs as it was before the latest ingest
    \* ---- triggers of fleet runs (cmd_download, main, update_data) ----
    tpc,           \* position of each trigger
    tkind,         \* "download" | "default" | "web"
    log_id,        \* local log_id of each trigger
    tdone,         \* printers the run of the trigger has processed (-1: no run)
    tfailed,       \* list positions of the printers whose sequence failed
    terr,          \* the exception that reached the handler of the trigger
    tlost,         \* a statement of log_update_event was not executed
    download_lock, \* the lock of the web process is held
    update_logs,   \* rows of table update_logs, in insertion order
    \* ---- a call of a function of the module ----
    callee,    \* the function called
    arg,       \* its argument
    called,    \* the call has been made
    ret,       \* its result once called
    \* ---- the parse cache (_smart_load) and the file it reads ----
    disk,        \* the file at the path: present, content, st_mtime, st_size
    fsnow,       \* the time stamp the file system gives to a write
    FILE_CACHE,  \* _FILE_CACHE, by key prefix (the path is fixed)
    lastRead,    \* the latest cached read: function, result, content then
    \* ---- user-count store (sync_usercount_to_db, fetch_latest_user_counts) ----
    user_counts, \* rows of table user_counts, in insertion order
    syncs,       \* number of user-count files ingested so far
    lastSync,    \* the latest ingest: file, printer, raised or not
    lastQuery,   \* the query made since the latest ingest: arguments, result
    \* ---- the two ingests of each printer of a run (download_exports) ----
    storeSel,    \* the printers of the run, in order
    storePos,    \* index into storeSel of the printer whose files are ingested
    storeStage,  \* "uc" | "jl": the file of that printer to ingest next
    lastIngest   \* the latest ingest: which file, its rows, raised or not

fleetVars == <<pc, runs, selected, idx, trace, client, op, attempt, last, calls,
               sleeps, retState, result, raised, tok1, tok2, reqlog, files, now>>
ingestVars == <<job_logs, csv, ingests, ingPrinter, before>>
triggerVars == <<tpc, tkind, log_id, tdone, tfailed, terr, tlost, download_lock,
                 update_logs>>
callVars == <<callee, arg, called, ret>>
cacheVars == <<disk, fsnow, FILE_CACHE, lastRead>>
countVars == <<user_counts, syncs, lastSync, lastQuery>>
storeVars == <<storeSel, storePos, storeStage, lastIngest>>
libVars == <<callVars, cacheVars, countVars, storeVars>>
vars == <<fleetVars, ingestVars, triggerVars, libVars>>

----------------------------------------------------------------------------
\* Bounds of the model
MaxRuns == 1
MaxTime == 3
MaxRows == 2
MaxIngests == 2
MaxStamps == 5
MaxTriggers == 2

\* Program constants
RETRY == 2

\* The configured printers (PRINTERS), each a base URL.
PRINTERS == <<[host |-> "h1", port |-> 0], [host |-> "h2", port |-> 0]>>
Printers == {PRINTERS[i] : i \in 1..Len(PRINTERS)}

NoExc == [kind |-> "none", at |-> 0]
NoPath == [dir |-> "none", prefix |-> "", tag |-> <<>>, ts |-> 0]
NoClient == [run |-> 0, pos |-> 0, base |-> <<>>, logged_in |-> FALSE]

----------------------------------------------------------------------------
\* host_tag: the netloc with ":" replaced by "_"; a tag is the sequence of its
\* "_"-separated parts.
host_tag(base) == IF base.port = 0 THEN <<base.host>> ELSE <<base.host, base.port>>

\* now_ts has a resolution of one second.
now_ts(t) == t

\* An HTML page is the sequence of its <input> elements.  sep = "ws" when the
\* element reads name="N" then whitespace then value="V"; any other layout
\* (another attribute between, value before name) is sep = "other".
Input(n, s, v) == [name |-> n, sep |-> s, value |-> v]

\* re.search(name="N"\s+value="([^"]*)") : the first element that matches.
RECURSIVE extract_hidden_value(_, _)
extract_hidden_value(html, name) ==
    IF html = <<>> THEN ""
    ELSE IF Head(html).name = name /\ Head(html).sep = "ws" THEN Head(html).value
    ELSE extract_hidden_value(Tail(html), name)

TokenVals == {"tA", "tB"}

LoginPages ==
    {<<>>, <<Input("token2", "ws", "")>>, <<Input("token2", "other", "tA")>>}
    \cup {<<Input("token2", "ws", v)>> : v \in TokenVals}

FormPages ==
    {<<Input("token1", "ws", "tA")>>,
     <<Input("token1", "ws", "tA"), Input("token2", "ws", "")>>,
     <<Input("token2", "ws", "tB")>>}
    \cup {<<Input("token1", "ws", a), Input("token2", "ws", b)>> :
             a \in TokenVals, b \in TokenVals}

Statuses == {200, 500}
Ok2xx(status) == status = 200

Req(m, page, status, body, t1, t2, url) ==
    [m |-> m, page |-> page, status |-> status, body |-> body,
     token1 |-> t1, token2 |-> t2, url |-> url]

----------------------------------------------------------------------------
\* Exceptions.  `at` is the index of the invocation that created the object, so
\* two exceptions of the same class raised by different attempts are different
\* objects.
Exc(kind) == [kind |-> kind, at |-> attempt]
TransportKinds == {"Timeout"}
ProtocolKinds == {"TokenNotFound", "LoginFailed"}

Ops == {"login", "export_user_count", "export_joblog"}
Kinds == {"usercount", "joblog"}
OpOfKind(k) == IF k = "usercount" THEN "export_user_count" ELSE "export_joblog"
Prefix(k) == IF k = "usercount" THEN "uc" ELSE "joblog"
FormPage(k) == IF k = "usercount" THEN "account_usercountlist_save.html"
               ELSE "sysmgt_joblog_save.html"
DownloadPage(k) == IF k = "usercount" THEN "account_count_save.html"
                   ELSE "joblog_download.html"
PcGet(k) == IF k = "usercount" THEN "uc_get" ELSE "jl_get"
PcPost(k) == IF k = "usercount" THEN "uc_post" ELSE "jl_post"
PcDownload(k) == IF k = "usercount" THEN "uc_download" ELSE "jl_download"
\* Faulty variant: every attempt starts over with the login.
FirstPcLogin(o) == "login_get"

FirstPc(o) == CASE o = "login" -> "login_get"
                [] o = "export_user_count" -> "uc_get"
                [] o = "export_joblog" -> "jl_get"

\* The artifact path: <out_dir>/<prefix>_<host_tag>_<now_ts>.csv
ArtifactName(k, base, t) ==
    [dir |-> k, prefix |-> Prefix(k), tag |-> host_tag(base), ts |-> now_ts(t)]

\* write_bytes creates the file, or replaces the content of the file of that
\* name.
WriteBytes(fs, name) == fs \cup {name}

----------------------------------------------------------------------------
\* request_with_retry

\* Faulty variant: only a transport-class exception is retried.
MayRetryTransportOnly(i, e) == i < RETRY /\ e.kind \in TransportKinds

\* i < RETRY: sleep and go round again, else re-raise.
MayRetry(i, e) == i < RETRY

\* Faulty variant: the last exception is wrapped in a new one.
PropagatedWrapped(lastv) == [kind |-> "RuntimeError", at |-> lastv.at]

\* raise last
Propagated(lastv) == lastv

\* Faulty variant: a constant backoff.
BackoffConstant(i) == 1

\* time.sleep(1.0 + i)
Backoff(i) == 1 + i

\* Faulty variant: no handler at the per-printer boundary, the exception leaves
\* download_exports.
CaughtNowhere(e) == "aborted"

\* Faulty variant: the handler starts the next sequence at once, without the
\* pause.
CaughtSkipsPause(e) == "call_login"

\* except Exception as e: print("FAIL:", e) -- the exception of a stage ends
\* the try block of that printer, and the loop body goes on with the pause.
Caught(e) == "pause"

\* The except clause of request_with_retry for exception e, followed, when it
\* re-raises, by the except clause of download_exports (print FAIL).
Except(e) ==
    /\ last' = e
    /\ IF MayRetry(attempt, e)
         THEN /\ pc' = "retry_sleep"
              /\ UNCHANGED <<retState, raised, trace>>
         ELSE /\ retState' = "raised"
              /\ raised' = Propagated(last')
              /\ trace' = Append(trace, "failed")
              /\ pc' = Caught(raised')
    /\ UNCHANGED <<result, attempt, sleeps, client>>

\* The session of a client whose login() has returned holds the cookies of
\* the authenticated session.
LoggedIn(c) == [c EXCEPT !.logged_in = TRUE]

\* return fn(*args, **kwargs), and the statement of download_exports after it.
Return(r) ==
    /\ retState' = "returned"
    /\ result' = r
    /\ pc' = CASE op = "login" -> "call_uc"
               [] op = "export_user_count" -> "sync_uc"
               [] op = "export_joblog" -> "sync_jl"
    /\ trace' = Append(trace, CASE op = "login" -> "export_uc"
                                [] op = "export_user_count" -> "ingest_uc"
                                [] op = "export_joblog" -> "ingest_jl")
    /\ client' = IF op = "login" THEN LoggedIn(client) ELSE client
    /\ UNCHANGED <<last, attempt, sleeps, raised>>

\* No exception and no return yet: the method goes on to its next request.
Continue(nextPc) ==
    /\ pc' = nextPc
    /\ UNCHANGED <<last, attempt, sleeps, retState, result, raised, trace, client>>

\* request_with_retry(fn, ...) is entered: last = None, i = 0.
CallOp(o) ==
    /\ pc = CASE o = "login" -> "call_login"
              [] o = "export_user_count" -> "call_uc"
              [] o = "export_joblog" -> "call_jl"
    /\ op' = o
    /\ attempt' = 0
    /\ last' = NoExc
    /\ calls' = 0
    /\ sleeps' = <<>>
    /\ retState' = "running"
    /\ result' = NoPath
    /\ raised' = NoExc
    /\ tok1' = ""
    /\ tok2' = ""
    /\ reqlog' = <<>>
    /\ pc' = FirstPc(o)
    /\ UNCHANGED <<runs, selected, idx, trace, client, files, now, ingestVars, triggerVars, libVars>>

\* The frame of a finished call is gone once download_exports moves on.
DropFrame ==
    /\ op' = "none"
    /\ attempt' = 0
    /\ last' = NoExc
    /\ calls' = 0
    /\ sleeps' = <<>>
    /\ retState' = "none"
    /\ result' = NoPath
    /\ raised' = NoExc
    /\ tok1' = ""
    /\ tok2' = ""
    /\ reqlog' = <<>>

\* time.sleep(1.0 + i), then the next iteration of the loop; the frame of the
\* failed invocation is gone.
RetrySleep ==
    /\ pc = "retry_sleep"
    /\ now + Backoff(attempt) <= MaxTime
    /\ now' = now + Backoff(attempt)
    /\ sleeps' = Append(sleeps, Backoff(attempt))
    /\ attempt' = attempt + 1
    /\ pc' = FirstPc(op)
    /\ tok1' = ""
    /\ tok2' = ""
    /\ reqlog' = <<>>
    /\ UNCHANGED <<runs, selected, idx, trace, client, op, last, calls, retState,
                   result, raised, files, ingestVars, triggerVars, libVars>>

----------------------------------------------------------------------------
\* SharpMFP.login

\* payload["token2"] = token2
LoginPayloadToken2(t2) == t2

\* "login.html" in t.url
UrlHasLogin(url) == url \in {"login.html", "login.html?/main.html"}
FinalUrls == {"main.html", "login.html?/main.html"}

\* Faulty variant: the token check is left out.
LoginTokenNeverMissing(t2) == FALSE

\* The token check of login: not token2
LoginTokenMissing(t2) == t2 = ""

\* The token check of the exports: not token1 or not token2
FormTokenMissing(t1, t2) == t1 = "" \/ t2 = ""

\* Faulty variant: the status of the verification GET decides, not its URL.
VerifyFailsOnStatus(status, url) == ~Ok2xx(status)

\* Faulty variant: the verification GET is sent and its answer ignored.
VerifyNeverFails(status, url) == FALSE

\* The check after the verification GET: redirected back to the login page.
\* The status of the verification GET is not looked at.
VerifyFails(status, url) == UrlHasLogin(url)

\* r = self.s.get(login_url); r.raise_for_status(); token2 = extract...;
\* raise RuntimeError when token2 is empty.
LoginGet ==
    /\ pc = "login_get"
    /\ calls' = calls + 1
    /\ tok1' = ""
    /\ \/ /\ reqlog' = <<Req("GET", "login.html", 0, <<>>, "", "", "")>>
          /\ tok2' = ""
          /\ Except(Exc("Timeout"))
       \/ \E st \in Statuses, html \in LoginPages :
             /\ reqlog' = <<Req("GET", "login.html", st, html, "", "", "")>>
             /\ IF ~Ok2xx(st)
                  THEN tok2' = "" /\ Except(Exc("HTTPError"))
                  ELSE /\ tok2' = extract_hidden_value(html, "token2")
                       /\ IF LoginTokenMissing(tok2')
                            THEN Except(Exc("TokenNotFound"))
                            ELSE Continue("login_post")
    /\ UNCHANGED <<runs, selected, idx, op, files, now, ingestVars, triggerVars, libVars>>

\* r = self.s.post(login_url, data=payload); r.raise_for_status()
LoginPost ==
    /\ pc = "login_post"
    /\ \/ /\ reqlog' = Append(reqlog, Req("POST", "login.html", 0, <<>>, "",
                                           LoginPayloadToken2(tok2), ""))
          /\ Except(Exc("Timeout"))
       \/ \E st \in Statuses :
             /\ reqlog' = Append(reqlog, Req("POST", "login.html", st, <<>>, "",
                                              LoginPayloadToken2(tok2), ""))
             /\ IF ~Ok2xx(st) THEN Except(Exc("HTTPError"))
                ELSE Continue("login_verify")
    /\ UNCHANGED <<runs, selected, idx, op, calls, tok1, tok2, files, now,
                   ingestVars, triggerVars, libVars>>

\* t = self.s.get(main.html); raise RuntimeError if "login.html" in t.url
LoginVerify ==
    /\ pc = "login_verify"
    /\ \/ /\ reqlog' = Append(reqlog, Req("GET", "main.html", 0, <<>>, "", "", ""))
          /\ Except(Exc("Timeout"))
       \/ \E st \in Statuses, url \in FinalUrls :
             /\ reqlog' = Append(reqlog, Req("GET", "main.html", st, <<>>, "", "", url))
             /\ IF VerifyFails(st, url) THEN Except(Exc("LoginFailed"))
                ELSE Return(NoPath)
    /\ UNCHANGED <<runs, selected, idx, op, calls, tok1, tok2, files, now,
                   ingestVars, triggerVars, libVars>>

----------------------------------------------------------------------------
\* SharpMFP.export_user_count and SharpMFP.export_joblog

\* Faulty variant: token1 is sent in both fields.
ExportPayloadToken2Swapped(t1, t2) == t1

\* data["token1"] = token1; data["token2"] = token2
ExportPayloadToken1(t1, t2) == t1
ExportPayloadToken2(t1, t2) == t2

\* GET of the settings page, raise_for_status, scrape token1 and token2.
ExportGet(k) ==
    /\ pc = PcGet(k)
    /\ calls' = calls + 1
    /\ \/ /\ reqlog' = <<Req("GET", FormPage(k), 0, <<>>, "", "", "")>>
          /\ tok1' = "" /\ tok2' = ""
          /\ Except(Exc("Timeout"))
       \/ \E st \in Statuses, html \in FormPages :
             /\ reqlog' = <<Req("GET", FormPage(k), st, html, "", "", "")>>
             /\ IF ~Ok2xx(st)
                  THEN tok1' = "" /\ tok2' = "" /\ Except(Exc("HTTPError"))
                  ELSE /\ tok1' = extract_hidden_value(html, "token1")
                       /\ tok2' = extract_hidden_value(html, "token2")
                       /\ IF FormTokenMissing(tok1', tok2')
                            THEN Except(Exc("TokenNotFound"))
                            ELSE Continue(PcPost(k))
    /\ UNCHANGED <<runs, selected, idx, op, files, now, ingestVars, triggerVars, libVars>>

\* POST of the trigger form with the token pair, raise_for_status.
ExportPost(k) ==
    /\ pc = PcPost(k)
    /\ \/ /\ reqlog' = Append(reqlog, Req("POST", FormPage(k), 0, <<>>,
                 ExportPayloadToken1(tok1, tok2), ExportPayloadToken2(tok1, tok2), ""))
          /\ Except(Exc("Timeout"))
       \/ \E st \in Statuses :
             /\ reqlog' = Append(reqlog, Req("POST", FormPage(k), st, <<>>,
                 ExportPayloadToken1(tok1, tok2), ExportPayloadToken2(tok1, tok2), ""))
             /\ IF ~Ok2xx(st) THEN Except(Exc("HTTPError"))
                ELSE Continue(PcDownload(k))
    /\ UNCHANGED <<runs, selected, idx, op, calls, tok1, tok2, files, now,
                   ingestVars, triggerVars, libVars>>

\* Faulty variant: the response is written before its status is checked.
WritesArtifactAlways(status) == TRUE

\* Whether the download response is written to the artifact file:
\* raise_for_status comes before write_bytes.
WritesArtifact(status) == Ok2xx(status)

\* GET of the download endpoint, raise_for_status, then
\* fn = out_dir / f"{prefix}_{host_tag(self.base)}_{now_ts()}.csv"; write_bytes.
ExportDownload(k) ==
    /\ pc = PcDownload(k)
    /\ \/ /\ reqlog' = Append(reqlog, Req("GET", DownloadPage(k), 0, <<>>, "", "", ""))
          /\ Except(Exc("Timeout"))
          /\ UNCHANGED files
       \/ \E st \in Statuses :
             LET fn == ArtifactName(k, selected[idx], now) IN
             /\ reqlog' = Append(reqlog, Req("GET", DownloadPage(k), st, <<>>, "", "", ""))
             /\ files' = IF WritesArtifact(st)
                           THEN WriteBytes(files, fn)
                           ELSE files
             /\ IF ~Ok2xx(st) THEN Except(Exc("HTTPError")) ELSE Return(fn)
    /\ UNCHANGED <<runs, selected, idx, op, calls, tok1, tok2, now, ingestVars, triggerVars, libVars>>

----------------------------------------------------------------------------
\* CSV values.  A text cell is a string; a missing cell or header is None.  A
\* numeric cell is the sequence of its characters.
None == "<None>"
NoneChars == <<"<None>">>

\* Python's `a or b` on cells: None and the empty string are false.
PyOr(a, b) == IF a = None \/ a = "" THEN b ELSE a

DigitChars == <<"0", "1", "2", "3", "4", "5", "6", "7", "8", "9">>
IsDigit(c) == \E i \in 1..10 : DigitChars[i] = c
DigitVal(c) == (CHOOSE i \in 1..10 : DigitChars[i] = c) - 1
AllDigits(cs) == cs # <<>> /\ \A i \in 1..Len(cs) : IsDigit(cs[i])

RECURSIVE DigitsValue(_)
DigitsValue(cs) ==
    IF cs = <<>> THEN 0
    ELSE 10 * DigitsValue(SubSeq(cs, 1, Len(cs) - 1)) + DigitVal(cs[Len(cs)])

\* str.strip(): leading and trailing blanks removed.
RECURSIVE LStrip(_)
LStrip(cs) == IF cs # <<>> /\ Head(cs) = " " THEN LStrip(Tail(cs)) ELSE cs
RECURSIVE RStrip(_)
RStrip(cs) == IF cs # <<>> /\ cs[Len(cs)] = " "
                THEN RStrip(SubSeq(cs, 1, Len(cs) - 1)) ELSE cs
Strip(cs) == RStrip(LStrip(cs))

\* str.replace(",", "")
RemoveCommas(cs) == SelectSeq(cs, LAMBDA c : c # ",")

\* str.lower() on the letters of the model's alphabet.
LowerChar(c) == CASE c = "N" -> "n" [] c = "A" -> "a" [] c = "I" -> "i"
                  [] c = "F" -> "f" [] OTHER -> c
Lower(cs) == [i \in 1..Len(cs) |-> LowerChar(cs[i])]

NotApplicable == {<<"n", "/", "a">>, <<"n", "a">>, <<"unlimited">>}

\* A sign, then the rest.
Unsigned(cs) == IF cs # <<>> /\ Head(cs) \in {"+", "-"} THEN Tail(cs) ELSE cs
Sign(cs) == IF cs # <<>> /\ Head(cs) = "-" THEN -1 ELSE 1

\* int(text): blanks around, an optional sign, digits.  ok = FALSE: ValueError.
PyInt(cs) ==
    LET t == Strip(cs) IN
    IF AllDigits(Unsigned(t))
      THEN [ok |-> TRUE, v |-> Sign(t) * DigitsValue(Unsigned(t)), err |-> "none"]
      ELSE [ok |-> FALSE, v |-> 0, err |-> "ValueError"]

\* int(float(text)): digits with at most one point are truncated towards zero;
\* "nan" makes int() raise ValueError and "inf" makes it raise OverflowError.
PyIntOfFloat(cs) ==
    LET t == Strip(cs)
        u == Unsigned(t)
        dots == {i \in 1..Len(u) : u[i] = "."}
        whole == IF dots = {} THEN u
                 ELSE SubSeq(u, 1, (CHOOSE i \in dots : TRUE) - 1)
        frac == IF dots = {} THEN <<>>
                ELSE SubSeq(u, (CHOOSE i \in dots : TRUE) + 1, Len(u))
    IN  IF Lower(u) \in {<<"i", "n", "f">>}
          THEN [ok |-> FALSE, v |-> 0, err |-> "OverflowError"]
        ELSE IF Cardinality(dots) <= 1 /\ (whole # <<>> \/ frac # <<>>)
                /\ (whole = <<>> \/ AllDigits(whole)) /\ (frac = <<>> \/ AllDigits(frac))
          THEN [ok |-> TRUE, v |-> Sign(t) * DigitsValue(whole), err |-> "none"]
        ELSE [ok |-> FALSE, v |-> 0, err |-> "ValueError"]

\* safe_int: the result, with err = "OverflowError" when the call raises.
safe_int(value) ==
    IF value = NoneChars THEN [ok |-> TRUE, v |-> 0, err |-> "none"]
    ELSE LET cleaned == RemoveCommas(Strip(value)) IN
         IF cleaned = <<>> \/ Lower(cleaned) \in NotApplicable
           THEN [ok |-> TRUE, v |-> 0, err |-> "none"]
         ELSE IF PyInt(cleaned).ok THEN PyInt(cleaned)
         ELSE IF PyIntOfFloat(cleaned).err = "ValueError"
           THEN [ok |-> TRUE, v |-> 0, err |-> "none"]
         ELSE PyIntOfFloat(cleaned)

\* A date cell: a text that is no date, or a date written with a date
\* separator, a separator before the time ("none": no time part) and with or
\* without seconds.
TimeText(dsep, tsep, day, minute, sec) ==
    [isdate |-> TRUE, text |-> "", dsep |-> dsep, tsep |-> tsep, day |-> day,
     minute |-> minute, sec |-> sec]
NoTime(txt) ==
    [isdate |-> FALSE, text |-> txt, dsep |-> "", tsep |-> "", day |-> 0,
     minute |-> 0, sec |-> -1]
NoneTime == NoTime(None)

\* The formats tried by parse_time_value, in order.
TimeFormats ==
    <<[dsep |-> "-", tsep |-> "T", secs |-> TRUE],
      [dsep |-> "-", tsep |-> " ", secs |-> TRUE],
      [dsep |-> "/", tsep |-> " ", secs |-> TRUE],
      [dsep |-> "-", tsep |-> "T", secs |-> FALSE],
      [dsep |-> "-", tsep |-> " ", secs |-> FALSE],
      [dsep |-> "/", tsep |-> " ", secs |-> FALSE],
      [dsep |-> "-", tsep |-> "none", secs |-> FALSE]>>

\* datetime.strptime(cleaned, fmt) succeeds.
Strptime(c, fmt) ==
    /\ c.isdate
    /\ c.dsep = fmt.dsep
    /\ c.tsep = fmt.tsep
    /\ (c.sec >= 0) = fmt.secs

NullTime == [day |-> 0, minute |-> 0, sec |-> 0]
DateTime(c) == [day |-> c.day,
                minute |-> IF c.tsep = "none" THEN 0 ELSE c.minute,
                sec |-> IF c.sec >= 0 THEN c.sec ELSE 0]

RECURSIVE TryFormats(_, _)
TryFormats(c, k) ==
    IF k > Len(TimeFormats) THEN NullTime
    ELSE IF Strptime(c, TimeFormats[k]) THEN DateTime(c)
    ELSE TryFormats(c, k + 1)

\* parse_time_value: None, "" and "N/A" give None, then the formats are tried.
\* NullTime stands for None (days are counted from 1).
parse_time_value(c) ==
    IF c = NoneTime \/ (~c.isdate /\ c.text \in {"", "N/A"}) THEN NullTime
    ELSE TryFormats(c, 1)

\* PyOr on date cells.
PyOrTime(a, b) == IF a = NoneTime \/ (~a.isdate /\ a.text = "") THEN b ELSE a

----------------------------------------------------------------------------
\* _joblog_entries_from_csv_raw: one entry per CSV row.  A row maps the
\* headers of the file to the cells; a header the file lacks reads None.
Entry(row) ==
    [job_id |-> PyOr(row.jid_zh, row.jid_en),
     account_job_id |-> PyOr(row.acc_zh, row.acc_en),
     mode |-> PyOr(PyOr(row.mode_zh, row.mode_en), row.mode_en2),
     computer |-> PyOr(row.comp_zh, row.comp_en),
     user |-> PyOr(row.user_zh, row.user_en),
     login |-> PyOr(row.login_zh, row.login_en),
     start |-> parse_time_value(PyOrTime(row.start_zh, row.start_en)),
     end |-> parse_time_value(PyOrTime(row.end_zh, row.end_en)),
     bw |-> safe_int(row.bw_zh).v,
     color |-> safe_int(row.color_zh).v,
     pages |-> safe_int(row.bw_zh).v + safe_int(row.color_zh).v,
     file_name |-> row.file_zh,
     scan_type |-> row.scan_zh,
     destination |-> row.dest_zh]

\* safe_int raises on a cell of the row, and so does the parse of the file.
EntryRaises(row) == ~safe_int(row.bw_zh).ok \/ ~safe_int(row.color_zh).ok

joblog_entries(rows) == [i \in 1..Len(rows) |-> Entry(rows[i])]

\* The tuple sync_csv_to_db appends to `values` for entry e.
ValuesRow(printer_addr, e) ==
    [printer_addr |-> printer_addr, job_id |-> e.job_id,
     account_job_id |-> e.account_job_id, mode |-> e.mode,
     user_name |-> e.user, login_name |-> e.login, computer_name |-> e.computer,
     start_time |-> e.start, end_time |-> e.end,
     bw_pages |-> e.bw, color_pages |-> e.color, total_pages |-> e.pages,
     file_name |-> e.file_name, scan_type |-> e.scan_type,
     destination |-> e.destination]

\* Faulty variant: every entry is sent to the store.
EligibleAlways(e) == TRUE

\* if not e.get("start"): continue
Eligible(e) == e.start # NullTime

RECURSIVE BatchValues(_, _)
BatchValues(printer_addr, entries) ==
    IF entries = <<>> THEN <<>>
    ELSE LET rest == BatchValues(printer_addr, Tail(entries)) IN
         IF Eligible(Head(entries))
           THEN <<ValuesRow(printer_addr, Head(entries))>> \o rest
           ELSE rest

\* UNIQUE KEY unique_job (printer_addr, job_id, start_time): two rows conflict
\* when the three columns are equal and none is NULL (a unique index admits
\* any number of rows with a NULL in a key column).
UniqueConflict(a, b) ==
    /\ a.job_id # None /\ b.job_id # None
    /\ a.start_time # NullTime /\ b.start_time # NullTime
    /\ a.printer_addr = b.printer_addr
    /\ a.job_id = b.job_id
    /\ a.start_time = b.start_time

\* Faulty variant: the stored row is replaced by the new one.
OnDuplicateReplace(old, v) == v

\* Faulty variant: total_pages is missing from the UPDATE list.
OnDuplicateUpdateNoTotal(old, v) ==
    [old EXCEPT !.file_name = v.file_name, !.scan_type = v.scan_type,
                !.destination = v.destination, !.bw_pages = v.bw_pages,
                !.color_pages = v.color_pages]

\* ON DUPLICATE KEY UPDATE: the six columns assigned from VALUES().
OnDuplicateUpdate(old, v) ==
    [old EXCEPT !.file_name = v.file_name, !.scan_type = v.scan_type,
                !.destination = v.destination, !.bw_pages = v.bw_pages,
                !.color_pages = v.color_pages, !.total_pages = v.total_pages]

\* INSERT ... ON DUPLICATE KEY UPDATE of one row.
InsertRow(tbl, v) ==
    LET hits == {i \in 1..Len(tbl) : UniqueConflict(tbl[i], v)} IN
    IF hits = {} THEN Append(tbl, v)
    ELSE LET i == CHOOSE j \in hits : TRUE IN
         [tbl EXCEPT ![i] = OnDuplicateUpdate(tbl[i], v)]

\* cursor.executemany(sql, values)
RECURSIVE ExecuteMany(_, _)
ExecuteMany(tbl, values) ==
    IF values = <<>> THEN tbl
    ELSE ExecuteMany(InsertRow(tbl, Head(values)), Tail(values))

\* sync_csv_to_db(path, printer_addr): the table afterwards.  When the parse
\* raises, no statement is sent.
sync_csv_to_db(tbl, rows, printer_addr) ==
    IF \E i \in 1..Len(rows) : EntryRaises(rows[i]) THEN tbl
    ELSE ExecuteMany(tbl, BatchValues(printer_addr, joblog_entries(rows)))

----------------------------------------------------------------------------
\* cleanup_old_exports: per directory and per tag keep the 2 files whose names
\* sort last, unlink the others.
KEEP == 2

\* p.stem.split("_"): the parts of the file name without its suffix.
Stem(n) == <<n.prefix>> \o n.tag \o <<n.ts>>

\* tag = "_".join(parts[1:-1])
StemTag(parts) == SubSeq(parts, 2, Len(parts) - 1)

\* files_by_tag[tag] of one directory; a name of fewer than 3 parts is skipped.
CleanupGroup(names, d, tag) ==
    {n \in names : n.dir = d /\ Len(Stem(n)) >= 3 /\ StemTag(Stem(n)) = tag}

\* The order of two names of one tag as strings: by prefix, then by timestamp
\* (fixed width, so the order of the text is the order of the instants).
PrefixRank(prefix) == CASE prefix = "joblog" -> 1 [] prefix = "uc" -> 2 [] OTHER -> 0
NameAfter(a, b) ==
    \/ PrefixRank(a.prefix) > PrefixRank(b.prefix)
    \/ PrefixRank(a.prefix) = PrefixRank(b.prefix) /\ a.ts > b.ts

\* Faulty variant: the names are sorted in ascending order.
CleanupKeptOldest(names) ==
    {n \in names :
        \/ Len(Stem(n)) < 3
        \/ Cardinality({m \in CleanupGroup(names, n.dir, StemTag(Stem(n))) :
                           NameAfter(n, m)}) < KEEP}

\* files.sort(key=name, reverse=True); to_delete = files[2:]; f.unlink() --
\* a file stays when fewer than 2 names of its group sort after its name.
CleanupKept(names) ==
    {n \in names :
        \/ Len(Stem(n)) < 3
        \/ Cardinality({m \in CleanupGroup(names, n.dir, StemTag(Stem(n))) :
                           NameAfter(m, n)}) < KEEP}

cleanup_old_exports(fs) == CleanupKept(fs)

----------------------------------------------------------------------------
\* download_exports

\* resolve_printers: the configured list, or the printers named on the command
\* line in the order given: one printer, or the same printer named twice.
Selections == {PRINTERS, <<PRINTERS[1]>>, <<PRINTERS[1], PRINTERS[1]>>}

\* Faulty variant: the client of the printer before is kept when the next
\* printer has the same address.
SharpMFPKept(base, r, i) ==
    IF client.base = base THEN client
    ELSE [run |-> r, pos |-> i, base |-> base, logged_in |-> FALSE]

\* SharpMFP.__init__: self.s = requests.Session(), a session without cookies.
\* The object made by iteration i of run r is named by (r, i).
SharpMFP(base, r, i) == [run |-> r, pos |-> i, base |-> base, logged_in |-> FALSE]

\* for base in selected: client = SharpMFP(base, ...); try: ...
EnterPrinter(i) ==
    /\ idx' = i
    /\ trace' = <<"login">>
    /\ client' = SharpMFP(selected'[i], runs', i)
    /\ pc' = "call_login"

\* download_exports(printers): init_db, ensure_dir, selected = printers or PRINTERS
StartRun(sel) ==
    /\ pc = "idle"
    /\ runs < MaxRuns
    /\ runs' = runs + 1
    /\ selected' = sel
    /\ EnterPrinter(1)
    /\ UNCHANGED <<op, attempt, last, calls, sleeps, retState, result, raised,
                   tok1, tok2, reqlog, files, now, ingestVars, triggerVars, libVars>>

\* Faulty variant: the run goes on to the next stage after a failed ingest.
IngestNextAnyway(ok, nextPc, nextStage) ==
    /\ pc' = nextPc
    /\ trace' = Append(trace, IF ok THEN nextStage ELSE "failed")

\* An exception of an ingest step reaches the except clause of download_exports.
IngestNext(ok, nextPc, nextStage) ==
    /\ pc' = IF ok THEN nextPc ELSE Caught("DatabaseError")
    /\ trace' = Append(trace, IF ok THEN nextStage ELSE "failed")

\* uc_count = sync_usercount_to_db(uc, base): returns, or raises.
SyncUserCount ==
    /\ pc = "sync_uc"
    /\ \E ok \in BOOLEAN : IngestNext(ok, "call_jl", "export_jl")
    /\ DropFrame
    /\ UNCHANGED <<runs, selected, idx, client, files, now, ingestVars, triggerVars, libVars>>

\* count = sync_csv_to_db(jl, base): returns, or raises.
SyncJobLog ==
    /\ pc = "sync_jl"
    /\ \E ok \in BOOLEAN : IngestNext(ok, "pause", "done")
    /\ DropFrame
    /\ UNCHANGED <<runs, selected, idx, client, files, now, ingestVars, triggerVars, libVars>>

\* Faulty variant: the loop ends after its first iteration.
MorePrintersNever(i, sel) == FALSE

\* for base in selected: another iteration follows iteration i.
MorePrinters(i, sel) == i < Len(sel)

\* time.sleep(SLEEP_BETWEEN_PRINTERS), half a second: the clock may or may not
\* reach the next second.  Then the next printer, or the end of the loop.
Pause ==
    /\ pc = "pause"
    /\ \E d \in {0, 1} :
          /\ now + d <= MaxTime
          /\ now' = now + d
    /\ UNCHANGED <<runs, selected>>
    /\ IF MorePrinters(idx, selected)
         THEN EnterPrinter(idx + 1)
         ELSE pc' = "cleanup" /\ UNCHANGED <<idx, trace, client>>
    /\ DropFrame
    /\ UNCHANGED <<files, ingestVars, triggerVars, libVars>>

\* cleanup_old_exports(), the last statement of download_exports.
Cleanup ==
    /\ pc = "cleanup"
    /\ files' = cleanup_old_exports(files)
    /\ pc' = "idle"
    /\ UNCHANGED <<runs, selected, idx, trace, client, op, attempt, last, calls,
                   sleeps, retState, result, raised, tok1, tok2, reqlog, now,
                   ingestVars, triggerVars, libVars>>

\* Time passes.
Tick ==
    /\ now < MaxTime
    /\ now' = now + 1
    /\ UNCHANGED <<pc, runs, selected, idx, trace, client, op, attempt, last, calls,
                   sleeps, retState, result, raised, tok1, tok2, reqlog, files,
                   ingestVars, triggerVars, libVars>>

\* The export directories hold what earlier runs left: nothing, or the two
\* user-count artifacts of the first printer that the last cleanup kept.
PriorExports ==
    {ArtifactName("usercount", PRINTERS[1], 0 - 2),
     ArtifactName("usercount", PRINTERS[1], 0 - 1)}

FleetInit ==
    /\ pc = "idle"
    /\ runs = 0
    /\ selected = <<>>
    /\ idx = 0
    /\ trace = <<>>
    /\ client = NoClient
    /\ op = "none"
    /\ attempt = 0
    /\ last = NoExc
    /\ calls = 0
    /\ sleeps = <<>>
    /\ retState = "none"
    /\ result = NoPath
    /\ raised = NoExc
    /\ tok1 = ""
    /\ tok2 = ""
    /\ reqlog = <<>>
    /\ files \in {{}, PriorExports}
    /\ now = 0

IngestIdle ==
    /\ job_logs = <<>>
    /\ csv = <<>>
    /\ ingests = 0
    /\ ingPrinter = "none"
    /\ before = <<>>

\* No trigger has arrived; the audit table is empty and the lock free.
Triggers == 1..MaxTriggers
TriggersIdle ==
    /\ tpc = [t \in Triggers |-> "idle"]
    /\ tkind = [t \in Triggers |-> "none"]
    /\ log_id = [t \in Triggers |-> 0]
    /\ tdone = [t \in Triggers |-> 0 - 1]
    /\ tfailed = [t \in Triggers |-> {}]
    /\ terr = [t \in Triggers |-> "none"]
    /\ tlost = [t \in Triggers |-> FALSE]
    /\ download_lock = FALSE
    /\ update_logs = <<>>

\* No call of a library function in progress.
CallIdle == callee = "none" /\ arg = None /\ called = FALSE /\ ret = None
\* No file and nothing cached.
NoFile == [present |-> FALSE, content |-> "", mtime |-> 0, size |-> 0]
NoEntry == [cached |-> FALSE, mtime |-> 0, size |-> 0, data |-> <<>>]
NoRead == [fn |-> "none", raised |-> FALSE, data |-> <<>>, content |-> ""]
CachePrefixes == {"csv_rows", "joblog_parsed"}
CacheIdle ==
    /\ disk = NoFile /\ fsnow = 0
    /\ FILE_CACHE = [k \in CachePrefixes |-> NoEntry]
    /\ lastRead = NoRead
\* An empty user_counts table, nothing ingested and nothing asked.
NoSync == [done |-> FALSE, file |-> <<>>, printer |-> <<>>, raised |-> FALSE]
NoQuery == [asked |-> FALSE, printer |-> <<>>, show_zero |-> FALSE, items |-> <<>>]
CountsIdle ==
    /\ user_counts = <<>> /\ syncs = 0
    /\ lastSync = NoSync /\ lastQuery = NoQuery
NoIngest == [kind |-> "none", rows |-> <<>>, printer |-> <<>>, raised |-> FALSE]
StoreIdle ==
    /\ storeSel = <<>> /\ storePos = 0 /\ storeStage = "none"
    /\ lastIngest = NoIngest
LibIdle == CallIdle /\ CacheIdle /\ CountsIdle /\ StoreIdle

Init == FleetInit /\ IngestIdle /\ TriggersIdle /\ LibIdle

----------------------------------------------------------------------------
\* Ingest of exported job-log files (SpecIngest)

\* Cells of an exported job log.  The job id is given under the localized
\* header, or under the English one, or is empty; the start date is one instant
\* written in two accepted formats, or "N/A", or a date in no accepted format.
IdZh == [zh |-> "J1", en |-> None]
IdEn == [zh |-> None, en |-> "J2"]
IdEmpty == [zh |-> "", en |-> None]
StartDash == TimeText("-", " ", 1, 600, 0)
StartSlash == TimeText("/", " ", 1, 600, -1)
StartNA == NoTime("N/A")
StartOther == TimeText("/", "T", 1, 600, 0)

CsvRow(id, start, variant) ==
    [jid_zh |-> id.zh, jid_en |-> id.en,
     acc_zh |-> IF variant = 1 THEN "A1" ELSE None,
     acc_en |-> IF variant = 1 THEN None ELSE "A2",
     mode_zh |-> IF variant = 1 THEN "print" ELSE None,
     mode_en |-> None,
     mode_en2 |-> IF variant = 1 THEN None ELSE "copy",
     comp_zh |-> IF variant = 1 THEN "pc1" ELSE "",
     comp_en |-> None,
     user_zh |-> IF variant = 1 THEN "alice" ELSE "bob",
     user_en |-> None,
     login_zh |-> IF variant = 1 THEN "alice" ELSE "",
     login_en |-> None,
     start_zh |-> start, start_en |-> NoneTime,
     end_zh |-> IF variant = 1 THEN TimeText("-", " ", 1, 601, 30) ELSE NoTime(""),
     end_en |-> NoneTime,
     bw_zh |-> IF variant = 1 THEN <<"3">> ELSE <<"1", ",", "2", "0", "4">>,
     color_zh |-> IF variant = 1 THEN <<"2">> ELSE <<"N", "/", "A">>,
     file_zh |-> IF variant = 1 THEN "a.doc" ELSE "b.doc",
     scan_zh |-> IF variant = 1 THEN None ELSE "SMB",
     dest_zh |-> IF variant = 1 THEN None ELSE "srv"]

\* The rows a file is made of: one job exported twice with different cells,
\* a job without id exported twice, a job of the English export, and two rows
\* without a usable start date.
CsvRows ==
    {CsvRow(IdZh, StartDash, 1), CsvRow(IdZh, StartSlash, 2),
     CsvRow(IdEmpty, StartDash, 1), CsvRow(IdEmpty, StartSlash, 2),
     CsvRow(IdEn, StartSlash, 1),
     CsvRow(IdZh, StartNA, 1), CsvRow(IdEn, StartOther, 2)}

RECURSIVE CsvFilesOfLen(_)
CsvFilesOfLen(n) ==
    IF n = 0 THEN {<<>>}
    ELSE {Append(f, r) : f \in CsvFilesOfLen(n - 1), r \in CsvRows}

CsvFiles == UNION {CsvFilesOfLen(n) : n \in 0..MaxRows}

\* The store before: empty, or what an earlier export of one row left in it.
PriorStores ==
    {sync_csv_to_db(<<>>, <<r>>, PRINTERS[1]) : r \in CsvRows}

IngestInit ==
    /\ job_logs \in PriorStores
    /\ csv \in CsvFiles
    /\ ingests = 0
    /\ ingPrinter \in Printers
    /\ before = job_logs

\* sync_csv_to_db(path, printer_addr), once more on the same file
Ingest ==
    /\ ingests < MaxIngests
    /\ before' = job_logs
    /\ job_logs' = sync_csv_to_db(job_logs, csv, ingPrinter)
    /\ ingests' = ingests + 1
    /\ UNCHANGED <<csv, ingPrinter, fleetVars, triggerVars, libVars>>

InitIngest == FleetInit /\ files = {} /\ IngestInit /\ TriggersIdle /\ LibIdle
NextIngest == Ingest
SpecIngest == InitIngest /\ [][NextIngest]_vars

\* Cleanup of export directories that earlier runs have filled (SpecCleanup).
\* The user-count directory holds any set of artifacts of two printers (one of
\* them addressed with a port) stamped 1..MaxStamps, the job-log directory
\* none or three artifacts of the first printer.
CleanupBases == {PRINTERS[1], [host |-> "h1", port |-> 8080]}
UserCountNames ==
    {ArtifactName("usercount", base, t) : base \in CleanupBases, t \in 1..MaxStamps}
JobLogNames == {ArtifactName("joblog", PRINTERS[1], t) : t \in 1..3}
Directories == {u \cup j : u \in SUBSET UserCountNames, j \in {{}, JobLogNames}}

CleanupInit ==
    /\ pc = "cleanup"
    /\ runs = 1
    /\ selected = PRINTERS
    /\ idx = Len(PRINTERS)
    /\ trace = <<"login", "failed">>
    /\ client = SharpMFP(PRINTERS[Len(PRINTERS)], 1, Len(PRINTERS))
    /\ op = "none"
    /\ attempt = 0
    /\ last = NoExc
    /\ calls = 0
    /\ sleeps = <<>>
    /\ retState = "none"
    /\ result = NoPath
    /\ raised = NoExc
    /\ tok1 = ""
    /\ tok2 = ""
    /\ reqlog = <<>>
    /\ files \in Directories
    /\ now = MaxStamps

InitCleanup == CleanupInit /\ IngestIdle /\ TriggersIdle /\ LibIdle
NextCleanup == Cleanup
SpecCleanup == InitCleanup /\ [][NextCleanup]_vars

----------------------------------------------------------------------------
\* Triggers of fleet runs and the audit log (SpecTriggers).  A trigger is the
\* download subcommand (cmd_download), the invocation without subcommand
\* (main), each in a process of its own, or a request to /update_data in the
\* web process.  The run itself is followed printer by printer, each printer's
\* sequence ending in done or failed.

TriggerKinds == {"download", "default", "web"}

\* What a statement sent to the database does: it is executed, or it fails
\* (log_update_event prints and returns 0), or no connection is made
\* (get_db_connection raises).
DbOutcomes == {"ok", "failed", "raised"}

Message(text, detail) == [text |-> text, detail |-> detail]

\* A row of update_logs; `run` records the trigger that inserted it.
AuditRow(id, source, status, message, run) ==
    [id |-> id, trigger_source |-> source, status |-> status,
     message |-> message, run |-> run]

\* log_update_event(source, status, message, log_id): INSERT when log_id is 0,
\* else UPDATE ... WHERE id = log_id.  The table afterwards, the value
\* returned, and whether the call raised.
log_update_event(tbl, source, status, message, lid, run, outcome) ==
    IF outcome = "raised" THEN [tbl |-> tbl, ret |-> 0, raised |-> TRUE]
    ELSE IF outcome = "failed" THEN [tbl |-> tbl, ret |-> 0, raised |-> FALSE]
    ELSE IF lid = 0
      THEN [tbl |-> Append(tbl, AuditRow(Len(tbl) + 1, source, status, message, run)),
            ret |-> Len(tbl) + 1, raised |-> FALSE]
    ELSE [tbl |-> [i \in 1..Len(tbl) |->
                     IF tbl[i].id = lid
                       THEN [tbl[i] EXCEPT !.status = status, !.message = message]
                       ELSE tbl[i]],
          ret |-> lid, raised |-> FALSE]

\* Triggers arrive in the order of their numbers.
Arrive(t, kind) ==
    /\ tpc[t] = "idle"
    /\ t > 1 => tpc[t - 1] # "idle"
    /\ tkind' = [tkind EXCEPT ![t] = kind]
    /\ tpc' = [tpc EXCEPT ![t] = CASE kind = "download" -> "dl_start"
                                   [] kind = "default" -> "run_init"
                                   [] kind = "web" -> "w_token"]
    /\ UNCHANGED <<tlost, log_id, tdone, tfailed, terr, download_lock, update_logs>>

\* cmd_download: log_id = log_update_event(source, "running", ..., 0)
DlStart(t) ==
    /\ tpc[t] = "dl_start"
    /\ \E o \in DbOutcomes :
          LET r == log_update_event(update_logs, "manual", "running",
                                    Message("start", ""), 0, t, o) IN
          /\ update_logs' = r.tbl
          /\ tlost' = [tlost EXCEPT ![t] = tlost[t] \/ o # "ok"]
          /\ log_id' = [log_id EXCEPT ![t] = r.ret]
          /\ tpc' = [tpc EXCEPT ![t] = IF r.raised THEN "crashed" ELSE "run_init"]
    /\ UNCHANGED <<tkind, tdone, tfailed, terr, download_lock>>

\* Where an exception that leaves the run is handled.
HandlerOf(kind) == CASE kind = "download" -> "dl_error"
                     [] kind = "default" -> "raised"
                     [] kind = "web" -> "w_error"

\* The statement after the run.
AfterRun(kind) == CASE kind = "download" -> "dl_success"
                    [] kind = "default" -> "ended"
                    [] kind = "web" -> "w_warm"

\* download_exports: init_db() and the directories; init_db raises when the
\* database cannot be reached.
RunInit(t) ==
    /\ tpc[t] = "run_init"
    /\ tdone' = [tdone EXCEPT ![t] = 0]
    /\ \E ok \in BOOLEAN :
          IF ok THEN /\ tpc' = [tpc EXCEPT ![t] = "run_loop"]
                     /\ UNCHANGED terr
          ELSE /\ tpc' = [tpc EXCEPT ![t] = HandlerOf(tkind[t])]
               /\ terr' = [terr EXCEPT ![t] = "DatabaseError"]
    /\ UNCHANGED <<tlost, tkind, log_id, tfailed, download_lock, update_logs>>

\* download_exports: one iteration of the loop.  The sequence of the printer
\* ends in done, or an exception is caught and printed (FAIL).
RunPrinter(t) ==
    /\ tpc[t] = "run_loop"
    /\ tdone[t] < Len(PRINTERS)
    /\ tdone' = [tdone EXCEPT ![t] = tdone[t] + 1]
    /\ \E ok \in BOOLEAN :
          tfailed' = [tfailed EXCEPT ![t] =
                        IF ok THEN tfailed[t] ELSE tfailed[t] \cup {tdone[t] + 1}]
    /\ UNCHANGED <<tlost, tpc, tkind, log_id, terr, download_lock, update_logs>>

\* download_exports: cleanup_old_exports() and return.
RunCleanup(t) ==
    /\ tpc[t] = "run_loop"
    /\ tdone[t] = Len(PRINTERS)
    /\ tpc' = [tpc EXCEPT ![t] = AfterRun(tkind[t])]
    /\ UNCHANGED <<tlost, tkind, log_id, tdone, tfailed, terr, download_lock, update_logs>>

\* The run of a process started from the command line.
download_exports(t) ==
    /\ tkind[t] \in {"download", "default"}
    /\ RunInit(t) \/ RunPrinter(t) \/ RunCleanup(t)

\* The run of the web trigger: the same orchestrator, its output yielded line
\* by line, the failure of a printer as a FAIL line.
run_download_process(t) ==
    /\ tkind[t] = "web"
    /\ RunInit(t) \/ RunPrinter(t) \/ RunCleanup(t)

\* cmd_download: log_update_event(source, "success", ..., log_id); an exception
\* of it is caught by the except clause below it.
DlSuccess(t) ==
    /\ tpc[t] = "dl_success"
    /\ \E o \in DbOutcomes :
          LET r == log_update_event(update_logs, "manual", "success",
                                    Message("done", ""), log_id[t], t, o) IN
          /\ update_logs' = r.tbl
          /\ tlost' = [tlost EXCEPT ![t] = tlost[t] \/ o # "ok"]
          /\ IF r.raised
               THEN /\ tpc' = [tpc EXCEPT ![t] = "dl_error"]
                    /\ terr' = [terr EXCEPT ![t] = "DatabaseError"]
               ELSE /\ tpc' = [tpc EXCEPT ![t] = "ended"]
                    /\ UNCHANGED terr
    /\ UNCHANGED <<tkind, log_id, tdone, tfailed, download_lock>>

\* cmd_download: except Exception as e: log_update_event(source, "error",
\* "...: " + str(e), log_id); raise e
DlError(t) ==
    /\ tpc[t] = "dl_error"
    /\ \E o \in DbOutcomes :
          /\ update_logs' = log_update_event(update_logs, "manual", "error",
                                Message("failed", terr[t]), log_id[t], t, o).tbl
          /\ tlost' = [tlost EXCEPT ![t] = tlost[t] \/ o # "ok"]
    /\ tpc' = [tpc EXCEPT ![t] = "raised"]
    /\ UNCHANGED <<tkind, log_id, tdone, tfailed, terr, download_lock>>

\* update_data: if token != expected_token: yield the error and return.
WebToken(t) ==
    /\ tpc[t] = "w_token"
    /\ \E right \in BOOLEAN :
          tpc' = [tpc EXCEPT ![t] = IF right THEN "w_acquire" ELSE "denied"]
    /\ UNCHANGED <<tlost, tkind, log_id, tdone, tfailed, terr, download_lock, update_logs>>

\* Faulty variant: the lock is taken whether it is held or not.
AcquireAlways(held) == "w_start"

\* download_lock.acquire(blocking=False): refused at once when the lock is held.
Acquire(held) == IF held THEN "rejected" ELSE "w_start"

\* update_data: try to take the lock; log_id = 0
WebAcquire(t) ==
    /\ tpc[t] = "w_acquire"
    /\ tpc' = [tpc EXCEPT ![t] = Acquire(download_lock)]
    /\ download_lock' = (download_lock \/ tpc'[t] = "w_start")
    /\ log_id' = [log_id EXCEPT ![t] = 0]
    /\ UNCHANGED <<tlost, tkind, tdone, tfailed, terr, update_logs>>

\* update_data: log_id = log_update_event("web_manual", "running", ..., 0)
WebStart(t) ==
    /\ tpc[t] = "w_start"
    /\ \E o \in DbOutcomes :
          LET r == log_update_event(update_logs, "web_manual", "running",
                                    Message("start", ""), 0, t, o) IN
          /\ update_logs' = r.tbl
          /\ tlost' = [tlost EXCEPT ![t] = tlost[t] \/ o # "ok"]
          /\ IF r.raised
               THEN /\ tpc' = [tpc EXCEPT ![t] = "w_error"]
                    /\ terr' = [terr EXCEPT ![t] = "DatabaseError"]
                    /\ UNCHANGED log_id
               ELSE /\ tpc' = [tpc EXCEPT ![t] = "run_init"]
                    /\ log_id' = [log_id EXCEPT ![t] = r.ret]
                    /\ UNCHANGED terr
    /\ UNCHANGED <<tkind, tdone, tfailed, download_lock>>

\* update_data: the three requests that warm the cache return, or one raises.
WebWarm(t) ==
    /\ tpc[t] = "w_warm"
    /\ \E ok \in BOOLEAN :
          IF ok THEN /\ tpc' = [tpc EXCEPT ![t] = "w_success"]
                     /\ UNCHANGED terr
          ELSE /\ tpc' = [tpc EXCEPT ![t] = "w_warning"]
               /\ terr' = [terr EXCEPT ![t] = "WarmupError"]
    /\ UNCHANGED <<tlost, tkind, log_id, tdone, tfailed, download_lock, update_logs>>

\* update_data: log_update_event("web_manual", "success", ..., log_id)
WebSuccess(t) ==
    /\ tpc[t] = "w_success"
    /\ \E o \in DbOutcomes :
          LET r == log_update_event(update_logs, "web_manual", "success",
                                    Message("done", ""), log_id[t], t, o) IN
          /\ update_logs' = r.tbl
          /\ tlost' = [tlost EXCEPT ![t] = tlost[t] \/ o # "ok"]
          /\ IF r.raised
               THEN /\ tpc' = [tpc EXCEPT ![t] = "w_warning"]
                    /\ terr' = [terr EXCEPT ![t] = "DatabaseError"]
               ELSE /\ tpc' = [tpc EXCEPT ![t] = "w_release"]
                    /\ UNCHANGED terr
    /\ UNCHANGED <<tkind, log_id, tdone, tfailed, download_lock>>

\* update_data: except Exception as w_err: log_update_event("web_manual",
\* "warning", "...: " + str(w_err), log_id)
WebWarning(t) ==
    /\ tpc[t] = "w_warning"
    /\ \E o \in DbOutcomes :
          LET r == log_update_event(update_logs, "web_manual", "warning",
                                    Message("warmup failed", terr[t]), log_id[t], t, o) IN
          /\ update_logs' = r.tbl
          /\ tlost' = [tlost EXCEPT ![t] = tlost[t] \/ o # "ok"]
          /\ IF r.raised
               THEN /\ tpc' = [tpc EXCEPT ![t] = "w_error"]
                    /\ terr' = [terr EXCEPT ![t] = "DatabaseError"]
               ELSE /\ tpc' = [tpc EXCEPT ![t] = "w_release"]
                    /\ UNCHANGED terr
    /\ UNCHANGED <<tkind, log_id, tdone, tfailed, download_lock>>

\* update_data: except Exception as e: if log_id > 0: log_update_event(
\* "web_manual", "error", "...: " + str(e), log_id)
WebError(t) ==
    /\ tpc[t] = "w_error"
    /\ IF log_id[t] > 0
         THEN \E o \in DbOutcomes :
                 /\ update_logs' = log_update_event(update_logs, "web_manual", "error",
                                       Message("system error", terr[t]), log_id[t], t, o).tbl
                 /\ tlost' = [tlost EXCEPT ![t] = tlost[t] \/ o # "ok"]
         ELSE UNCHANGED <<update_logs, tlost>>
    /\ tpc' = [tpc EXCEPT ![t] = "w_release"]
    /\ UNCHANGED <<tkind, log_id, tdone, tfailed, terr, download_lock>>

\* The positions of update_data suspended at a yield inside the try block
\* with the run not yet over: after the start message, at a line of the run,
\* before the cache is warmed.
YieldPcs == {"run_init", "run_loop", "w_warm"}

\* The client leaves the progress stream: the generator is closed, and
\* GeneratorExit -- not an Exception -- is raised at the yield where it is
\* suspended.  No except clause catches it; the finally clause runs.
WebDisconnect(t) ==
    /\ tkind[t] = "web"
    /\ tpc[t] \in YieldPcs
    /\ terr' = [terr EXCEPT ![t] = "GeneratorExit"]
    /\ tpc' = [tpc EXCEPT ![t] = "w_release"]
    /\ UNCHANGED <<tlost, tkind, log_id, tdone, tfailed, download_lock, update_logs>>

\* update_data: finally: download_lock.release()
WebRelease(t) ==
    /\ tpc[t] = "w_release"
    /\ download_lock' = FALSE
    /\ tpc' = [tpc EXCEPT ![t] = "ended"]
    /\ UNCHANGED <<tlost, tkind, log_id, tdone, tfailed, terr, update_logs>>

InitTriggers == FleetInit /\ files = {} /\ IngestIdle /\ TriggersIdle /\ LibIdle

\* A step of a trigger leaves the rest of the model alone.
TriggerFrame == UNCHANGED <<fleetVars, ingestVars, libVars>>

NextTriggers ==
    \/ \E t \in Triggers : \E kind \in TriggerKinds : Arrive(t, kind) /\ TriggerFrame
    \/ \E t \in Triggers : DlStart(t) /\ TriggerFrame
    \/ \E t \in Triggers : download_exports(t) /\ TriggerFrame
    \/ \E t \in Triggers : run_download_process(t) /\ TriggerFrame
    \/ \E t \in Triggers : DlSuccess(t) /\ TriggerFrame
    \/ \E t \in Triggers : DlError(t) /\ TriggerFrame
    \/ \E t \in Triggers : WebToken(t) /\ TriggerFrame
    \/ \E t \in Triggers : WebAcquire(t) /\ TriggerFrame
    \/ \E t \in Triggers : WebDisconnect(t) /\ TriggerFrame
    \/ \E t \in Triggers : WebStart(t) /\ TriggerFrame
    \/ \E t \in Triggers : WebWarm(t) /\ TriggerFrame
    \/ \E t \in Triggers : WebSuccess(t) /\ TriggerFrame
    \/ \E t \in Triggers : WebWarning(t) /\ TriggerFrame
    \/ \E t \in Triggers : WebError(t) /\ TriggerFrame
    \/ \E t \in Triggers : WebRelease(t) /\ TriggerFrame

SpecTriggers == InitTriggers /\ [][NextTriggers]_vars

\* The web process alone: every trigger is a request to /update_data.
NextWeb ==
    \/ \E t \in Triggers : Arrive(t, "web") /\ TriggerFrame
    \/ \E t \in Triggers : WebToken(t) /\ TriggerFrame
    \/ \E t \in Triggers : WebAcquire(t) /\ TriggerFrame
    \/ \E t \in Triggers : WebStart(t) /\ TriggerFrame
    \/ \E t \in Triggers : run_download_process(t) /\ TriggerFrame
    \/ \E t \in Triggers : WebWarm(t) /\ TriggerFrame
    \/ \E t \in Triggers : WebSuccess(t) /\ TriggerFrame
    \/ \E t \in Triggers : WebWarning(t) /\ TriggerFrame
    \/ \E t \in Triggers : WebError(t) /\ TriggerFrame
    \/ \E t \in Triggers : WebDisconnect(t) /\ TriggerFrame
    \/ \E t \in Triggers : WebRelease(t) /\ TriggerFrame

SpecWeb == InitTriggers /\ [][NextWeb]_vars

Next ==
    \/ \E sel \in Selections : StartRun(sel)
    \/ \E o \in Ops : CallOp(o)
    \/ LoginGet
    \/ LoginPost
    \/ LoginVerify
    \/ \E k \in Kinds : ExportGet(k)
    \/ \E k \in Kinds : ExportPost(k)
    \/ \E k \in Kinds : ExportDownload(k)
    \/ RetrySleep
    \/ SyncUserCount
    \/ SyncJobLog
    \/ Pause
    \/ Cleanup
    \/ Tick

Spec == Init /\ [][Next]_vars

\* The steps of the thread that executes a run.  The thread is never suspended
\* for ever: every request has a timeout and every sleep ends.
RunStep ==
    \/ \E o \in Ops : CallOp(o)
    \/ LoginGet
    \/ LoginPost
    \/ LoginVerify
    \/ \E k \in Kinds : ExportGet(k)
    \/ \E k \in Kinds : ExportPost(k)
    \/ \E k \in Kinds : ExportDownload(k)
    \/ RetrySleep
    \/ SyncUserCount
    \/ SyncJobLog
    \/ Pause
    \/ Cleanup

\* The default run (all configured printers) into empty export directories,
\* with the thread of the run scheduled fairly.
InitLive == Init /\ files = {}
NextLive == StartRun(PRINTERS) \/ RunStep
SpecLive == InitLive /\ [][NextLive]_vars /\ WF_vars(RunStep)

----------------------------------------------------------------------------
\* Vocabulary of the properties

ExportOps == {"export_user_count", "export_joblog"}
KindOfOp(o) == IF o = "export_user_count" THEN "usercount" ELSE "joblog"
FailedPcs == {"retry_sleep", "pause"}

\* The page holds an <input> of that name with a non-empty value.
HasInput(html, name) ==
    \E i \in 1..Len(html) : html[i].name = name /\ html[i].value # ""

\* The value of the first <input> of that name on the page.
InputValue(html, name) ==
    LET hits == {i \in 1..Len(html) : html[i].name = name} IN
    IF hits = {} THEN ""
    ELSE html[CHOOSE i \in hits : \A j \in hits : i <= j].value

\* The page yields a token of that name: its first <input name="N" value="V">
\* has a non-empty value.
Yields(html, name) ==
    \E i \in 1..Len(html) :
       /\ html[i].name = name /\ html[i].sep = "ws" /\ html[i].value # ""
       /\ \A j \in 1..(i - 1) : ~(html[j].name = name /\ html[j].sep = "ws")

\* What the last request of an invocation shows about why the invocation
\* failed: the class of the exception it raised.
FailureOf(log) ==
    LET r == log[Len(log)] IN
    IF r.status = 0 THEN "Timeout"
    ELSE IF r.page = "main.html"
      THEN (IF UrlHasLogin(r.url) THEN "LoginFailed" ELSE "none")
    ELSE IF ~Ok2xx(r.status) THEN "HTTPError"
    ELSE IF r.m = "GET" /\ r.page = "login.html" /\ ~Yields(r.body, "token2")
      THEN "TokenNotFound"
    ELSE IF r.m = "GET" /\ r.page \in {FormPage(k) : k \in Kinds}
            /\ ~(Yields(r.body, "token1") /\ Yields(r.body, "token2"))
      THEN "TokenNotFound"
    ELSE "none"

\* Request j of the log got a 2xx response.
Succeeded(log, j) == Ok2xx(log[j].status)

----------------------------------------------------------------------------
\* C1: ingesting the same exported CSV for the same printer a second time
\* leaves the number of job_logs rows unchanged, and every row of the file is
\* then stored with the mutable fields of the file's last row of that key.
MutableFields(r) ==
    <<r.bw_pages, r.color_pages, r.total_pages, r.file_name, r.scan_type,
      r.destination>>
SameKey(a, b) ==
    /\ a.printer_addr = b.printer_addr
    /\ a.job_id = b.job_id
    /\ a.start_time = b.start_time
IngestedValues == BatchValues(ingPrinter, joblog_entries(csv))
C1_IngestIdempotent ==
    ingests >= 2 =>
        /\ Len(job_logs) = Len(before)
        /\ \A i \in 1..Len(IngestedValues) :
              \E j \in 1..Len(job_logs) :
                 /\ SameKey(job_logs[j], IngestedValues[i])
                 /\ \E k \in i..Len(IngestedValues) :
                       /\ SameKey(IngestedValues[k], IngestedValues[i])
                       /\ MutableFields(job_logs[j]) = MutableFields(IngestedValues[k])

\* C2: a call of request_with_retry invokes the operation at most RETRY + 1
\* times, and when it raises, it raises the exception object of invocation
\* RETRY + 1, of the class that invocation failed with.
C2_AtMostNPlus1LastRaised ==
    /\ calls <= RETRY + 1
    /\ retState = "raised" =>
          /\ calls = RETRY + 1
          /\ raised.at = calls - 1
          /\ raised.kind = FailureOf(reqlog)
C2_Witness ==
    /\ retState = "raised"
    /\ calls = RETRY + 1
    /\ raised.kind = "HTTPError"

\* C3: when the operation first succeeds on invocation k, the call returns
\* that invocation's result with nothing invoked afterwards, after k - 1
\* sleeps, the sleep after failed invocation i (from 0) lasting 1 + i seconds;
\* no sleep follows the last failed invocation of a call that raises.
C3_ReturnsFirstSuccessAfterBackoff ==
    /\ \A n \in 1..Len(sleeps) : sleeps[n] = 1 + (n - 1)
    /\ \A n \in 2..Len(sleeps) : sleeps[n] > sleeps[n - 1]
    /\ retState = "running" => Len(sleeps) = attempt
    /\ retState = "raised" => Len(sleeps) = calls - 1
    /\ retState = "returned" =>
          /\ Len(sleeps) = calls - 1
          /\ FailureOf(reqlog) = "none"
          /\ pc \in {"call_uc", "sync_uc", "sync_jl"}
          /\ op = "login" => result = NoPath
          /\ op \in ExportOps =>
                /\ result \in files
                /\ result.dir = KindOfOp(op)
                /\ result.tag = host_tag(selected[idx])
C3_Witness ==
    /\ retState = "returned"
    /\ op = "export_user_count"
    /\ calls = RETRY + 1
    /\ sleeps = <<1, 2>>

\* C4 as claimed: after a protocol-class failure (token not found, login
\* redirected back to the login page) no further invocation is pending.
C4_ProtocolFailureNotRetried ==
    ~(pc = "retry_sleep" /\ last.kind \in ProtocolKinds)

\* C4 as amended: the wrapper retries whatever the class of the exception.  A
\* failed invocation before the last is followed by the sleep and another
\* invocation, and a call raises only after RETRY + 1 invocations.
C4_EveryFailureRetried ==
    /\ retState = "raised" => calls = RETRY + 1
    /\ (retState = "running" /\ calls = attempt + 1 /\ calls <= RETRY
          /\ FailureOf(reqlog) # "none") => pc = "retry_sleep"
C4_Witness ==
    /\ retState = "raised"
    /\ calls = RETRY + 1
    /\ raised.kind = "TokenNotFound"

\* C5: within one login() call a POST is sent only after the GET of the login
\* page returned a page holding a non-empty token2; when the page holds none,
\* login() fails with the log ending at that GET.
C5_NoPostWithoutToken ==
    op = "login" =>
        /\ \A j \in 1..Len(reqlog) :
              reqlog[j].m = "POST" =>
                 /\ j = 2
                 /\ reqlog[1].m = "GET"
                 /\ reqlog[1].page = "login.html"
                 /\ Succeeded(reqlog, 1)
                 /\ HasInput(reqlog[1].body, "token2")
                 /\ reqlog[j].token2 # ""
        /\ (Len(reqlog) >= 1 /\ Succeeded(reqlog, 1)
              /\ ~HasInput(reqlog[1].body, "token2")) =>
                 /\ Len(reqlog) = 1
                 /\ retState # "returned"
                 /\ pc \in FailedPcs
                 /\ last.kind = "TokenNotFound"
C5_Witness ==
    /\ op = "login"
    /\ Len(reqlog) = 1
    /\ Succeeded(reqlog, 1)
    /\ reqlog[1].body = <<Input("token2", "ws", "")>>
    /\ last.kind = "TokenNotFound"
    /\ pc = "retry_sleep"

\* C6: when the final URL of the verification GET of main.html contains
\* login.html, login() raises, whatever the status of the POST; it does not
\* return.
C6_LoginRedirectFails ==
    (op = "login" /\ Len(reqlog) = 3 /\ UrlHasLogin(reqlog[3].url)) =>
        /\ retState # "returned"
        /\ pc \in FailedPcs
        /\ last.kind = "LoginFailed"
        /\ last.at = attempt
C6_Witness ==
    /\ op = "login"
    /\ Len(reqlog) = 3
    /\ reqlog[2].m = "POST"
    /\ reqlog[2].status = 200
    /\ reqlog[3].status = 200
    /\ UrlHasLogin(reqlog[3].url)
    /\ retState = "raised"

\* C7: an export call sends GET settings page, POST trigger, GET download in
\* that order; a stage that fails (non-2xx, no response, a token missing) is
\* the last request of the call; the artifact is written only by a call whose
\* three stages succeeded, and a call that fails writes none.
ExportLogInOrder(k) ==
    /\ Len(reqlog) <= 3
    /\ Len(reqlog) >= 1 => reqlog[1].m = "GET" /\ reqlog[1].page = FormPage(k)
    /\ Len(reqlog) >= 2 => reqlog[2].m = "POST" /\ reqlog[2].page = FormPage(k)
    /\ Len(reqlog) >= 3 => reqlog[3].m = "GET" /\ reqlog[3].page = DownloadPage(k)
    /\ \A j \in 1..(Len(reqlog) - 1) : FailureOf(SubSeq(reqlog, 1, j)) = "none"
    /\ (reqlog # <<>> /\ FailureOf(reqlog) # "none") => pc \in FailedPcs
AllStagesSucceeded(log) ==
    /\ Len(log) = 3
    /\ \A j \in 1..3 : FailureOf(SubSeq(log, 1, j)) = "none"
C7_StagesInOrder ==
    \A k \in Kinds : op = OpOfKind(k) =>
        /\ ExportLogInOrder(k)
        /\ retState = "returned" => AllStagesSucceeded(reqlog) /\ result \in files
C7_ArtifactOnlyOnSuccess ==
    (files' # files /\ pc # "cleanup") =>
        /\ op \in ExportOps
        /\ retState' = "returned"
        /\ AllStagesSucceeded(reqlog')
        /\ files' = files \cup {result'}
C7_ExportStages == [](C7_StagesInOrder) /\ [][C7_ArtifactOnlyOnSuccess]_vars
C7_Witness ==
    /\ op = "export_joblog"
    /\ Len(reqlog) = 2
    /\ reqlog[2].status = 500
    /\ pc = "retry_sleep"
    /\ \A n \in files : n.dir # "joblog"

\* C8: every POST carries the token values of the page returned by the GET of
\* the same form page that precedes it in the same invocation, in every
\* attempt of the retry loop.
C8_FreshTokens ==
    \A j \in 1..Len(reqlog) :
       reqlog[j].m = "POST" =>
          /\ j > 1
          /\ reqlog[j - 1].m = "GET"
          /\ reqlog[j - 1].page = reqlog[j].page
          /\ Succeeded(reqlog, j - 1)
          /\ reqlog[j].token2 = InputValue(reqlog[j - 1].body, "token2")
          /\ reqlog[j].token2 # ""
          /\ op \in ExportOps =>
                /\ reqlog[j].token1 = InputValue(reqlog[j - 1].body, "token1")
                /\ reqlog[j].token1 # ""
C8_Witness ==
    /\ op = "export_user_count"
    /\ attempt = 1
    /\ Len(reqlog) = 2
    /\ reqlog[2].m = "POST"
    /\ reqlog[2].token1 = "tA"
    /\ reqlog[2].token2 = "tB"

\* C9: the file an export call writes has a name that no artifact present in
\* the destination directory has.
C9_WritesNewName ==
    [][(op \in ExportOps /\ retState = "running" /\ retState' = "returned")
          => result' \notin files]_vars

\* C10: the stages of a printer are entered in the order login, export user
\* count, ingest user count, export job log, ingest job log, done; a failure
\* ends the sequence at once, and the position of the run is the one of the
\* last stage entered.
StageOrder == <<"login", "export_uc", "ingest_uc", "export_jl", "ingest_jl", "done">>
IsPrefixOf(p, q) == Len(p) <= Len(q) /\ p = SubSeq(q, 1, Len(p))
Front(q) == SubSeq(q, 1, Len(q) - 1)
StageOfOp(o) == CASE o = "login" -> "login"
                  [] o = "export_user_count" -> "export_uc"
                  [] o = "export_joblog" -> "export_jl"
                  [] OTHER -> "none"
StageOfPc ==
    CASE pc \in {"call_login", "login_get", "login_post", "login_verify"} -> {"login"}
      [] pc \in {"call_uc", "uc_get", "uc_post", "uc_download"} -> {"export_uc"}
      [] pc = "sync_uc" -> {"ingest_uc"}
      [] pc \in {"call_jl", "jl_get", "jl_post", "jl_download"} -> {"export_jl"}
      [] pc = "sync_jl" -> {"ingest_jl"}
      [] pc = "retry_sleep" -> {StageOfOp(op)}
      [] OTHER -> {"done", "failed"}
C10_StagesInOrder ==
    pc # "idle" =>
        /\ trace # <<>>
        /\ \/ IsPrefixOf(trace, StageOrder)
           \/ /\ trace[Len(trace)] = "failed"
              /\ IsPrefixOf(Front(trace), Front(StageOrder))
              /\ Front(trace) # <<>>
        /\ trace[Len(trace)] \in StageOfPc
C10_Witness ==
    /\ trace = <<"login", "export_uc", "ingest_uc", "failed">>
    /\ pc = "pause"

\* C11: an exception of a stage never ends the run.  The step that fails a
\* printer leads to the pause of that printer; after the pause the run enters
\* the next printer of the list, or cleanup after the last one; printers are
\* entered one by one in list order, each position once; a run ends only
\* through cleanup, and every run that was started reaches cleanup (unless the
\* clock of the model has no room left for the sleep of a retry).
LastStage == IF trace = <<>> THEN "none" ELSE trace[Len(trace)]
ClockExhausted == pc = "retry_sleep" /\ now + Backoff(attempt) > MaxTime
C11_Step ==
    /\ (trace' # trace /\ trace' # <<>> /\ trace'[Len(trace')] = "failed")
          => pc' = "pause"
    /\ (pc = "pause" /\ pc' # pc) =>
          IF idx < Len(selected)
            THEN idx' = idx + 1 /\ pc' = "call_login" /\ trace' = <<"login">>
            ELSE idx' = idx /\ pc' = "cleanup"
    /\ (idx' # idx \/ (pc' = "call_login" /\ pc # "call_login")) =>
          \/ pc = "idle" /\ idx' = 1
          \/ pc = "pause" /\ idx' = idx + 1
    /\ (pc # "idle" /\ pc' = "idle") => pc = "cleanup"
    /\ selected' # selected => pc = "idle"
C11_InList == pc # "idle" => idx \in 1..Len(selected)
C11_RunEnds == (pc # "idle") ~> (pc = "cleanup" \/ ClockExhausted)
C11_FailureIsolated == [][C11_Step]_vars /\ []C11_InList /\ C11_RunEnds
C11_Witness ==
    /\ pc = "cleanup"
    /\ selected = PRINTERS
    /\ trace = StageOrder
    /\ \A n \in files : ~(n.dir = "joblog" /\ n.tag = host_tag(PRINTERS[1]))
    /\ \E n \in files : n.dir = "joblog" /\ n.tag = host_tag(PRINTERS[2])

\* C15: cleanup is entered only from the pause of the last selected printer,
\* whose sequence ended in done or failed; it runs once and ends the run; no
\* artifact disappears in any other step; no run ends without it.
C15_Step ==
    /\ (pc' = "cleanup" /\ pc # "cleanup") =>
          /\ pc = "pause"
          /\ idx = Len(selected)
          /\ LastStage \in {"done", "failed"}
    /\ ~(files \subseteq files') => pc = "cleanup"
    /\ (pc = "cleanup" /\ pc' # pc) =>
          pc' = "idle" /\ files' = cleanup_old_exports(files)
    /\ (pc # "idle" /\ pc' = "idle") => pc = "cleanup"
ArtifactsOf(fs, d, tag) == {n \in fs : n.dir = d /\ n.tag = tag}
Min(a, b) == IF a < b THEN a ELSE b
C16_Retention ==
    (pc = "cleanup" /\ pc' = "idle") =>
        /\ files' \subseteq files
        /\ \A g \in files :
              LET G == ArtifactsOf(files, g.dir, g.tag)
                  K == ArtifactsOf(files', g.dir, g.tag) IN
              /\ Cardinality(K) = Min(2, Cardinality(G))
              /\ \A k \in K : \A x \in G \ K : k.ts > x.ts
C17_UniqueNaturalKey ==
    \A i, j \in 1..Len(job_logs) :
       i # j => ~SameKey(job_logs[i], job_logs[j])

\* C18: an ingest changes no identity field (printer, job id, account job id,
\* mode, user, login, computer, start, end) of a row already stored; a stored
\* row changes only when a row of the file has its natural key; and a row the
\* ingest adds under a job id has the identity fields of the first row of the
\* file with that key.
IdentityFields(r) ==
    <<r.printer_addr, r.job_id, r.account_job_id, r.mode, r.user_name,
      r.login_name, r.computer_name, r.start_time, r.end_time>>
FirstOfKey(values, k) == \A h \in 1..(k - 1) : ~SameKey(values[h], values[k])
C18_Step ==
    job_logs' # job_logs =>
        /\ Len(job_logs') >= Len(job_logs)
        /\ \A i \in 1..Len(job_logs) :
              /\ IdentityFields(job_logs'[i]) = IdentityFields(job_logs[i])
              /\ job_logs'[i] # job_logs[i] =>
                    \E k \in 1..Len(IngestedValues) :
                       /\ SameKey(IngestedValues[k], job_logs[i])
                       /\ job_logs[i].job_id # None
        /\ \A i \in (Len(job_logs) + 1)..Len(job_logs') :
              \E k \in 1..Len(IngestedValues) :
                 /\ IdentityFields(job_logs'[i]) = IdentityFields(IngestedValues[k])
                 /\ job_logs'[i].job_id # None => FirstOfKey(IngestedValues, k)
C18_IdentityKept == [][C18_Step]_vars
C18_Witness ==
    /\ ingests >= 1
    /\ \E i \in 1..Len(before) :
          /\ i <= Len(job_logs)
          /\ before[i].user_name = "alice" /\ before[i].file_name = "a.doc"
          /\ job_logs[i].user_name = "alice" /\ job_logs[i].file_name = "b.doc"
          /\ job_logs[i].mode = "print" /\ job_logs[i].destination = "srv"

\* C19: no stored row has a null start time, and a row of the file whose start
\* date is absent or in no accepted format does not keep the other rows of the
\* file out of the store.
C19_NoNullStart ==
    /\ \A i \in 1..Len(job_logs) : job_logs[i].start_time # NullTime
    /\ ingests >= 1 =>
          \A k \in 1..Len(csv) :
             Entry(csv[k]).start # NullTime =>
                \E i \in 1..Len(job_logs) :
                   /\ job_logs[i].printer_addr = ingPrinter
                   /\ job_logs[i].job_id = Entry(csv[k]).job_id
                   /\ job_logs[i].start_time = Entry(csv[k]).start
C19_Witness ==
    /\ ingests = 1
    /\ Len(csv) = 2
    /\ csv[1].start_zh.isdate
    /\ parse_time_value(csv[1].start_zh) = NullTime
    /\ csv[2].start_zh = StartNA
    /\ job_logs = before

\* C20: every stored row has total pages = bw pages + color pages, after first
\* inserts and after updates on conflict.
C20_TotalIsSum ==
    \A i \in 1..Len(job_logs) :
       job_logs[i].total_pages = job_logs[i].bw_pages + job_logs[i].color_pages
C20_Witness ==
    /\ ingests >= 1
    /\ \E i \in 1..Len(before) :
          /\ i <= Len(job_logs)
          /\ before[i].total_pages = 5
          /\ job_logs[i].bw_pages = 1204
          /\ job_logs[i].color_pages = 0
          /\ job_logs[i].total_pages = 1204

\* C12: at no time are two fleet runs in progress.
InRun(t) == tpc[t] \in {"run_init", "run_loop"}
C12_AtMostOneRun ==
    \A t, u \in Triggers : (InRun(t) /\ InRun(u)) => t = u

\* C13: while a run is in progress the audit table holds exactly one row
\* inserted by its trigger, with status running; once the run has ended and
\* its trigger has finished, that row (and no other of that trigger) has status
\* success or error, the error row carrying the message of the exception.
RowsOf(t) == {i \in 1..Len(update_logs) : update_logs[i].run = t}
RunEnded(t) == tpc[t] \in {"ended", "raised"} /\ tdone[t] >= 0
C13_AuditRowPerRun ==
    \A t \in Triggers :
       /\ InRun(t) =>
             /\ Cardinality(RowsOf(t)) = 1
             /\ \A i \in RowsOf(t) : update_logs[i].status = "running"
       /\ RunEnded(t) =>
             /\ Cardinality(RowsOf(t)) = 1
             /\ \A i \in RowsOf(t) :
                   \/ update_logs[i].status = "success"
                   \/ /\ update_logs[i].status = "error"
                      /\ update_logs[i].message.detail = terr[t]
                      /\ terr[t] # "none"

\* C14: once a run in which the sequence of some printer failed has ended, the
\* audit row of the run does not read like the row of a run without failure:
\* it carries an error message.
C14_FailureInAuditRow ==
    \A t \in Triggers :
       (RunEnded(t) /\ tfailed[t] # {}) =>
          \A i \in RowsOf(t) :
             /\ update_logs[i].status # "success"
             /\ update_logs[i].message.detail # ""

(***************************************************************************)
(* SpecCoerce: safe_int applied to every cell of at most MaxCell           *)
(* characters, and to None.                                                *)
(***************************************************************************)
MaxCell == 3

SeqsUpTo(S, n) == UNION {[1..k -> S] : k \in 0..n}

\* Digits, the separators safe_int removes, the letters of "N/A", "na",
\* "inf" and of a word that is no number, and the unlimited marker.
CellChars == {"1", "7", ",", " ", ".", "-", "N", "/", "A", "a", "n", "I", "i",
              "f", "unlimited"}
Cells == {NoneChars} \cup SeqsUpTo(CellChars, MaxCell)

CallFrame == UNCHANGED <<fleetVars, ingestVars, triggerVars, cacheVars, countVars, storeVars>>

CoerceInit == callee = "safe_int" /\ arg \in Cells /\ called = FALSE /\ ret = None

Coerce ==
    /\ callee = "safe_int" /\ ~called
    /\ called' = TRUE
    /\ ret' = safe_int(arg)
    /\ UNCHANGED <<callee, arg>>
    /\ CallFrame

InitCoerce == FleetInit /\ files = {} /\ IngestIdle /\ TriggersIdle /\ CoerceInit /\ CacheIdle /\ CountsIdle /\ StoreIdle
NextCoerce == Coerce
SpecCoerce == InitCoerce /\ [][NextCoerce]_vars

Coerced == callee = "safe_int" /\ called

\* C27: numeric coercion is total.  For every cell and for None safe_int
\* returns an integer and never raises; separators and blanks are removed
\* ("1,7" gives 17), N/A, NA and the unlimited marker give 0, a decimal is
\* truncated ("7.1" gives 7) and a text that is no number gives 0.
C27_Total ==
    Coerced =>
        /\ ret.ok /\ ret.v \in Int
        /\ arg = <<"1", ",", "7">> => ret.v = 17
        /\ arg = <<" ", "7", " ">> => ret.v = 7
        /\ arg \in {<<"N", "/", "A">>, <<"N", "A">>, <<"n", "a">>, <<"unlimited">>,
                    NoneChars, <<>>} => ret.v = 0
        /\ arg = <<"7", ".", "1">> => ret.v = 7
        /\ arg \in {<<"a">>, <<"a", "/", "f">>, <<"1", "-", "7">>} => ret.v = 0

(***************************************************************************)
(* SpecParse: one row of a job-log CSV parsed into an entry.  A column is  *)
(* present under its localized header, under its English header, under     *)
(* both or under neither; a present cell may be empty.                     *)
(***************************************************************************)
TextPairs ==
    {[zh |-> "L", en |-> None], [zh |-> None, en |-> "E"], [zh |-> "L", en |-> "E"],
     [zh |-> None, en |-> None], [zh |-> "", en |-> "E"], [zh |-> "", en |-> None]}
DatePairs ==
    {[zh |-> StartDash, en |-> NoneTime],
     [zh |-> NoneTime, en |-> TimeText("-", " ", 2, 700, 0)],
     [zh |-> StartDash, en |-> TimeText("-", " ", 2, 700, 0)],
     [zh |-> NoneTime, en |-> NoneTime],
     [zh |-> NoTime(""), en |-> TimeText("-", " ", 2, 700, 0)]}
CountPairs ==
    {[zh |-> <<"3">>, en |-> NoneChars], [zh |-> NoneChars, en |-> <<"5">>],
     [zh |-> <<"3">>, en |-> <<"5">>], [zh |-> NoneChars, en |-> NoneChars],
     [zh |-> <<>>, en |-> <<"5">>]}

\* The row read by csv.DictReader, by header: ids and names, dates, counts,
\* and the file name, transmission type and destination.
ParseRow(t, d, c, o) ==
    [jid_zh |-> t.zh, jid_en |-> t.en,
     acc_zh |-> t.zh, acc_en |-> t.en,
     mode_zh |-> t.zh, mode_en |-> t.en, mode_en2 |-> None,
     comp_zh |-> t.zh, comp_en |-> t.en,
     user_zh |-> t.zh, user_en |-> t.en,
     login_zh |-> t.zh, login_en |-> t.en,
     start_zh |-> d.zh, start_en |-> d.en,
     end_zh |-> d.zh, end_en |-> d.en,
     bw_zh |-> c.zh, bw_en |-> c.en,
     color_zh |-> c.zh, color_en |-> c.en,
     file_zh |-> o.zh, file_en |-> o.en,
     scan_zh |-> o.zh, scan_en |-> o.en,
     dest_zh |-> o.zh, dest_en |-> o.en]
ParseRows ==
    {ParseRow(t, d, c, o) : t \in TextPairs, d \in DatePairs, c \in CountPairs,
                            o \in TextPairs}

ParseInit == callee = "entry" /\ arg \in ParseRows /\ called = FALSE /\ ret = None

\* One iteration of the loop of _joblog_entries_from_csv_raw.
Parse ==
    /\ callee = "entry" /\ ~called
    /\ called' = TRUE
    /\ ret' = [raised |-> EntryRaises(arg), entry |-> Entry(arg)]
    /\ UNCHANGED <<callee, arg>>
    /\ CallFrame

InitParse == FleetInit /\ files = {} /\ IngestIdle /\ TriggersIdle /\ ParseInit /\ CacheIdle /\ CountsIdle /\ StoreIdle
NextParse == Parse
SpecParse == InitParse /\ [][NextParse]_vars

Parsed == callee = "entry" /\ called

\* The cell of a field: under the localized header when it holds a value,
\* otherwise under the English alias, otherwise null.
Cell(zh, en) == IF zh \notin {None, ""} THEN zh ELSE IF en \notin {None, ""} THEN en ELSE None
CellTime(zh, en) == IF zh \notin {NoneTime, NoTime("")} THEN zh ELSE en
CellCount(zh, en) == IF zh \notin {NoneChars, <<>>} THEN zh ELSE en

\* Null and the empty text are the same absent value.
SameText(a, b) == a = b \/ (a \in {None, ""} /\ b \in {None, ""})

\* C28: every canonical job-log field is read under its localized header when
\* present and otherwise under its English alias; a field under neither
\* header is null (0 for counts), and the parse raises nothing.
C28_AliasFallback ==
    Parsed =>
        /\ ~ret.raised
        /\ SameText(ret.entry.job_id, Cell(arg.jid_zh, arg.jid_en))
        /\ SameText(ret.entry.account_job_id, Cell(arg.acc_zh, arg.acc_en))
        /\ SameText(ret.entry.mode, Cell(arg.mode_zh, arg.mode_en))
        /\ SameText(ret.entry.computer, Cell(arg.comp_zh, arg.comp_en))
        /\ SameText(ret.entry.user, Cell(arg.user_zh, arg.user_en))
        /\ SameText(ret.entry.login, Cell(arg.login_zh, arg.login_en))
        /\ ret.entry.start = parse_time_value(CellTime(arg.start_zh, arg.start_en))
        /\ ret.entry.end = parse_time_value(CellTime(arg.end_zh, arg.end_en))
        /\ ret.entry.bw = safe_int(CellCount(arg.bw_zh, arg.bw_en)).v
        /\ ret.entry.color = safe_int(CellCount(arg.color_zh, arg.color_en)).v
        /\ SameText(ret.entry.file_name, Cell(arg.file_zh, arg.file_en))
        /\ SameText(ret.entry.scan_type, Cell(arg.scan_zh, arg.scan_en))
        /\ SameText(ret.entry.destination, Cell(arg.dest_zh, arg.dest_en))

(***************************************************************************)
(* SpecReport: the job-log report of each printer and the report           *)
(* aggregated over the printers.                                           *)
(***************************************************************************)
MaxEntries == 2

\* str.lower() on the names of the model.
LowerName(n) == CASE n = "Alice" -> "alice" [] n = "N/A" -> "n/a" [] OTHER -> n

\* An entry as _joblog_entries_from_csv_raw leaves it: the displays, their
\* keys, the counts and the start (0: None).
ReportEntry(user, login, bw, color, start) ==
    [user_display |-> user, user_key |-> LowerName(user),
     login_display |-> login, login_key |-> LowerName(login),
     bw |-> bw, color |-> color, pages |-> bw + color, start |-> start]

EntryPool ==
    {ReportEntry("Alice", "alice", 2, 1, 1), ReportEntry("alice", "alice", 0, 3, 2),
     ReportEntry("alice", "alice", 1, 1, 0), ReportEntry("bob", "N/A", 3, 0, 0),
     ReportEntry("bob", "N/A", 0, 0, 2), ReportEntry("bob", "bob", 1, 0, 1)}

RECURSIVE SumOver(_, _)
SumOver(seq, field) ==
    IF seq = <<>> THEN 0
    ELSE seq[1][field] + SumOver(Tail(seq), field)

KeyOf(entry) == <<entry.user_key, entry.login_key>>

\* The keys of a defaultdict filled entry by entry, in insertion order.
RECURSIVE KeysInOrder(_)
KeysInOrder(entries) ==
    IF entries = <<>> THEN <<>>
    ELSE LET firsts == KeysInOrder(SubSeq(entries, 1, Len(entries) - 1))
             k == KeyOf(entries[Len(entries)])
         IN  IF \E i \in 1..Len(firsts) : firsts[i] = k THEN firsts
             ELSE Append(firsts, k)

\* The record of one key after the loop over the entries.
UserStat(entries, k) ==
    LET mine == SelectSeq(entries, LAMBDA e : KeyOf(e) = k)
    IN  [user |-> mine[Len(mine)].user_display,
         login |-> mine[Len(mine)].login_display,
         jobs |-> Len(mine),
         bw |-> SumOver(mine, "bw"),
         color |-> SumOver(mine, "color"),
         pages |-> SumOver(mine, "pages")]

\* The sort key of the ranking.
RankKeyPagesOnly(item) == <<item.pages, 0>>
RankKey(item) == <<item.pages, item.jobs>>

\* Tuples compare by their first components, then by their second.
KeyAtLeast(a, b) == a[1] > b[1] \/ (a[1] = b[1] /\ a[2] >= b[2])

\* sorted(..., reverse=True): descending and stable.  keys[i] is the key of
\* the i-th item; the result lists the positions of the first n items.
RECURSIVE SortedDesc(_, _)
SortedDesc(keys, n) ==
    IF n = 0 THEN <<>>
    ELSE LET done == SortedDesc(keys, n - 1)
             ahead == Cardinality({i \in 1..Len(done) : KeyAtLeast(keys[done[i]], keys[n])})
         IN  SubSeq(done, 1, ahead) \o <<n>> \o SubSeq(done, ahead + 1, Len(done))

Ranking(entries) ==
    LET ks == KeysInOrder(entries)
        stats == [i \in 1..Len(ks) |-> UserStat(entries, ks[i])]
        order == SortedDesc([i \in 1..Len(ks) |-> RankKey(stats[i])], Len(ks))
    IN  [i \in 1..Len(ks) |-> stats[order[i]]]

_aggregate_entries_to_report(entries) ==
    [entries |-> entries,
     top_users |-> Ranking(entries),
     recent |-> LET order == SortedDesc([i \in 1..Len(entries) |-> <<entries[i].start, 0>>],
                                        Len(entries))
                IN  [i \in 1..Len(entries) |-> entries[order[i]]],
     totals |-> [jobs |-> Len(entries),
                 bw |-> SumOver(entries, "bw"),
                 color |-> SumOver(entries, "color"),
                 pages |-> SumOver(entries, "pages")]]

RECURSIVE AllEntries(_)
AllEntries(reports) ==
    IF reports = <<>> THEN <<>>
    ELSE reports[1].entries \o AllEntries(Tail(reports))

\* aggregate_joblog_reports of a list of reports that is not empty.
aggregate_joblog_reports(reports) ==
    LET rts == [i \in 1..Len(reports) |-> reports[i].totals]
    IN  [totals |-> [jobs |-> SumOver(rts, "jobs"),
                     bw |-> SumOver(rts, "bw"),
                     color |-> SumOver(rts, "color"),
                     pages |-> SumOver(rts, "pages")],
         users |-> Ranking(AllEntries(reports))]

\* The entries of the job log of each printer.
ReportInit ==
    /\ callee = "report" /\ called = FALSE /\ ret = None
    /\ arg \in [1..Len(PRINTERS) -> SeqsUpTo(EntryPool, MaxEntries)]

Report ==
    /\ callee = "report" /\ ~called
    /\ called' = TRUE
    /\ LET reports == [i \in 1..Len(arg) |-> _aggregate_entries_to_report(arg[i])]
       IN  ret' = [reports |-> reports, summary |-> aggregate_joblog_reports(reports)]
    /\ UNCHANGED <<callee, arg>>
    /\ CallFrame

InitReport == FleetInit /\ files = {} /\ IngestIdle /\ TriggersIdle /\ ReportInit /\ CacheIdle /\ CountsIdle /\ StoreIdle
NextReport == Report
SpecReport == InitReport /\ [][NextReport]_vars

Reported == callee = "report" /\ called

RECURSIVE SumBwColor(_)
SumBwColor(seq) ==
    IF seq = <<>> THEN 0
    ELSE seq[1].bw + seq[1].color + SumBwColor(Tail(seq))

\* The entries of the user a record of the ranking stands for.
EntriesOf(u, es) ==
    SelectSeq(es, LAMBDA e : /\ e.user_key = LowerName(u.user)
                             /\ e.login_key = LowerName(u.login))

\* users is the ranking of the entries es, and totals their totals.
Aggregates(users, totals, es) ==
    /\ \A j \in 1..Len(es) :
          Cardinality({i \in 1..Len(users) : EntriesOf(users[i], <<es[j]>>) # <<>>}) = 1
    /\ \A i \in 1..Len(users) :
          /\ users[i].jobs = Len(EntriesOf(users[i], es))
          /\ users[i].jobs > 0
          /\ users[i].pages = SumBwColor(EntriesOf(users[i], es))
    /\ \A i, j \in 1..Len(users) :
          i < j => \/ users[i].pages > users[j].pages
                   \/ /\ users[i].pages = users[j].pages
                      /\ users[i].jobs >= users[j].jobs
    /\ totals.jobs = Len(es)
    /\ totals.bw = SumOver(es, "bw")
    /\ totals.color = SumOver(es, "color")
    /\ totals.pages = totals.bw + totals.color

\* C29: in the report of a printer and in the aggregated report, the jobs of
\* each user are the number of the user's entries and the pages the sum of
\* bw + color over them; the ranking is sorted by pages descending, ties by
\* jobs descending; the totals are the sums over all entries.
C29_Aggregation ==
    Reported =>
        /\ \A r \in 1..Len(ret.reports) :
              Aggregates(ret.reports[r].top_users, ret.reports[r].totals,
                         ret.reports[r].entries)
        /\ Aggregates(ret.summary.users, ret.summary.totals, AllEntries(ret.reports))

\* Two users tie on pages and differ in jobs, and one user has entries in the
\* job logs of both printers.
C29_Witness ==
    /\ Reported
    /\ \E i, j \in 1..Len(ret.summary.users) :
          /\ ret.summary.users[i].pages = ret.summary.users[j].pages
          /\ ret.summary.users[i].jobs > ret.summary.users[j].jobs
    /\ \E u \in 1..Len(ret.summary.users) :
          \A r \in 1..Len(ret.reports) :
              EntriesOf(ret.summary.users[u], ret.reports[r].entries) # <<>>

----------------------------------------------------------------------------
\* C30: within a run the printers are processed strictly one after another.
\* A sequence is entered only at the start of the run or by the pause that
\* follows a sequence that reached done or failed; a request is sent only
\* inside the one call in progress, for the printer at position idx; and the
\* invocation of attempt i + 1 starts only after invocation i failed and the
\* backoff sleep was taken.
C30_Step ==
    /\ (idx' # idx \/ (pc' = "call_login" /\ pc # "call_login")) =>
          \/ pc = "idle" /\ idx' = 1
          \/ /\ pc = "pause"
             /\ LastStage \in {"done", "failed"}
             /\ idx' = idx + 1
             /\ retState' = "none" /\ reqlog' = <<>>
    /\ Len(reqlog') > Len(reqlog) =>
          /\ retState = "running"
          /\ pc \notin {"idle", "pause", "cleanup", "retry_sleep"}
          /\ idx' = idx /\ op' = op
    /\ calls' > calls =>
          /\ calls' = calls + 1
          /\ calls = attempt
          /\ reqlog = <<>>
    /\ attempt' > attempt =>
          /\ attempt' = attempt + 1
          /\ pc = "retry_sleep"
          /\ last # NoExc
          /\ calls = attempt + 1
          /\ Len(sleeps') = Len(sleeps) + 1
C30_OneCall == retState = "running" => calls \in {attempt, attempt + 1}
C30_Sequential == [][C30_Step]_vars /\ []C30_OneCall

\* The second printer of the list is in the second attempt of an operation,
\* after the sequence of the first printer ended.
C30_Witness ==
    /\ idx = 2
    /\ attempt = 1
    /\ calls = 2
    /\ reqlog # <<>>

(***************************************************************************)
(* SpecCache: one CSV file that is rewritten and removed while             *)
(* read_csv_rows and joblog_entries_from_csv read it through _smart_load.  *)
(* The file system stamps a write with its current time stamp, which moves *)
(* on in steps of its resolution: two writes between two steps carry the   *)
(* same st_mtime.                                                          *)
(***************************************************************************)
MaxFsTime == 2

\* The texts the file can hold, and their sizes in bytes.  The row of "x" has
\* a page cell that makes safe_int raise (EntryRaises).
Contents == {"a", "b", "cc", "x"}
Size(c) == IF c = "cc" THEN 2 ELSE 1

\* loader_func(path) on the file: its content parsed, or FileNotFoundError.
Loaded(file, data) ==
    IF file.present THEN [raised |-> FALSE, data |-> data]
    ELSE [raised |-> TRUE, data |-> <<>>]

\* _read_csv_rows_raw: the rows of the text.
RowsOfText(c) == <<"rows", c>>
\* The loop of _joblog_entries_from_csv_raw over the rows: the entries, or
\* the exception of safe_int.
EntriesOfRows(rows) == <<"entries", rows>>
EntriesRaise(rows) == rows = RowsOfText("x")

\* if cached: c_mtime == mtime and c_size == size
CacheHit(cache, prefix, file) ==
    /\ file.present
    /\ cache[prefix].cached
    /\ cache[prefix].mtime = file.mtime
    /\ cache[prefix].size = file.size

\* Faulty variant: the entry is stored before the loader has returned.
_smart_load_stored_first(cache, prefix, file, loaded) ==
    IF ~file.present
      THEN [cache |-> cache, raised |-> loaded.raised, data |-> loaded.data]
    ELSE IF CacheHit(cache, prefix, file)
      THEN [cache |-> cache, raised |-> FALSE, data |-> cache[prefix].data]
    ELSE [cache |-> [cache EXCEPT ![prefix] =
                        [cached |-> TRUE, mtime |-> file.mtime,
                         size |-> file.size, data |-> loaded.data]],
          raised |-> loaded.raised, data |-> loaded.data]

\* _smart_load(path, loader_func, prefix), given what loader_func returns
\* when it is called: the cache afterwards and the result.
_smart_load(cache, prefix, file, loaded) ==
    IF ~file.present
      THEN [cache |-> cache, raised |-> loaded.raised, data |-> loaded.data]
    ELSE IF CacheHit(cache, prefix, file)
      THEN [cache |-> cache, raised |-> FALSE, data |-> cache[prefix].data]
    ELSE IF loaded.raised
      THEN [cache |-> cache, raised |-> TRUE, data |-> <<>>]
    ELSE [cache |-> [cache EXCEPT ![prefix] =
                        [cached |-> TRUE, mtime |-> file.mtime,
                         size |-> file.size, data |-> loaded.data]],
          raised |-> FALSE, data |-> loaded.data]

read_csv_rows(cache, file) ==
    _smart_load(cache, "csv_rows", file, Loaded(file, RowsOfText(file.content)))

\* The loader of joblog_entries_from_csv reads the rows through
\* read_csv_rows; it runs only when the outer lookup misses.
joblog_entries_from_csv(cache, file) ==
    LET rows == read_csv_rows(cache, file)
    IN  IF CacheHit(cache, "joblog_parsed", file)
          THEN _smart_load(cache, "joblog_parsed", file, Loaded(file, <<>>))
          ELSE _smart_load(rows.cache, "joblog_parsed", file,
                           IF rows.raised \/ EntriesRaise(rows.data)
                             THEN [raised |-> TRUE, data |-> <<>>]
                             ELSE [raised |-> FALSE, data |-> EntriesOfRows(rows.data)])

CacheFrame == UNCHANGED <<fleetVars, ingestVars, triggerVars, callVars, countVars, storeVars>>

\* The exporter, or anyone else, writes the file with another text.
WriteFile ==
    /\ \E c \in Contents :
          /\ ~disk.present \/ c # disk.content
          /\ disk' = [present |-> TRUE, content |-> c, mtime |-> fsnow, size |-> Size(c)]
    /\ UNCHANGED <<fsnow, FILE_CACHE, lastRead>>
    /\ CacheFrame

\* cleanup_old_exports, or anyone else, removes the file.
Unlink ==
    /\ disk.present
    /\ disk' = NoFile
    /\ UNCHANGED <<fsnow, FILE_CACHE, lastRead>>
    /\ CacheFrame

\* The time stamp of the file system moves on.
FsTick ==
    /\ fsnow < MaxFsTime
    /\ fsnow' = fsnow + 1
    /\ UNCHANGED <<disk, FILE_CACHE, lastRead>>
    /\ CacheFrame

CachedRead(name, r) ==
    [fn |-> name, raised |-> r.raised, data |-> r.data, content |-> disk.content]

ReadCsvRows ==
    /\ FILE_CACHE' = read_csv_rows(FILE_CACHE, disk).cache
    /\ lastRead' = CachedRead("read_csv_rows", read_csv_rows(FILE_CACHE, disk))
    /\ UNCHANGED <<disk, fsnow>>
    /\ CacheFrame

JoblogEntries ==
    /\ FILE_CACHE' = joblog_entries_from_csv(FILE_CACHE, disk).cache
    /\ lastRead' = CachedRead("joblog_entries_from_csv",
                              joblog_entries_from_csv(FILE_CACHE, disk))
    /\ UNCHANGED <<disk, fsnow>>
    /\ CacheFrame

CacheInit ==
    /\ \E c \in Contents :
          disk = [present |-> TRUE, content |-> c, mtime |-> 0, size |-> Size(c)]
    /\ fsnow = 0
    /\ FILE_CACHE = [k \in CachePrefixes |-> NoEntry]
    /\ lastRead = NoRead

InitCache ==
    FleetInit /\ files = {} /\ IngestIdle /\ TriggersIdle /\ CallIdle /\ CountsIdle /\ StoreIdle /\ CacheInit
NextCache ==
    \/ WriteFile
    \/ Unlink
    \/ FsTick
    \/ ReadCsvRows
    \/ JoblogEntries
SpecCache == InitCache /\ [][NextCache]_vars

\* What a read of the text returns when the text is parsed.
Parse_of(name, c) ==
    IF name = "read_csv_rows" THEN RowsOfText(c) ELSE EntriesOfRows(RowsOfText(c))
PrefixOf(name) == IF name = "read_csv_rows" THEN "csv_rows" ELSE "joblog_parsed"

\* C26: the parse cache never serves stale data.  Whatever the interleaving
\* of modifications and cached reads, the result of a read is the parse of
\* the content the file had at the stat check of that read, and a read that
\* finds another stat than the cached one parses again and overwrites the
\* entry.
C26_Fresh ==
    (lastRead.fn # "none" /\ ~lastRead.raised) =>
        lastRead.data = Parse_of(lastRead.fn, lastRead.content)
C26_Step ==
    (lastRead' # lastRead /\ ~lastRead'.raised
       /\ ~CacheHit(FILE_CACHE, PrefixOf(lastRead'.fn), disk)) =>
        FILE_CACHE'[PrefixOf(lastRead'.fn)] =
            [cached |-> TRUE, mtime |-> disk.mtime, size |-> disk.size,
             data |-> Parse_of(lastRead'.fn, disk.content)]
C26_NeverStale == []C26_Fresh /\ [][C26_Step]_vars

(***************************************************************************)
(* SpecCounts: user-count CSV files of any name ingested into table        *)
(* user_counts by sync_usercount_to_db, the latest snapshot read back by   *)
(* fetch_latest_user_counts.                                               *)
(***************************************************************************)
MaxSnapshots == 2

\* A column of the export: "<category>:已使用" holds the pages used (the colon
\* may be a full-width one), any other header of the category does not.
Column(category, used, cell) == [category |-> category, used |-> used, cell |-> cell]
KnownCategories == <<"printer:bw", "printer:color", "copy:bw", "copy:color">>

\* normalize_name on the name cells of the model.
normalize_name(value, fallback) ==
    CASE value \in {None, "", " "} -> fallback
      [] value = " bob " -> "bob"
      [] OTHER -> value

\* collect_usercount_usage: the columns that count; usage.get(cat, 0) and
\* sum(usage.values()) of the dict it returns.
UsedColumns(row) == SelectSeq(row.cols, LAMBDA c : c.used /\ c.category # "")
UsageRaises(row) ==
    \E i \in 1..Len(row.cols) :
        row.cols[i].used /\ row.cols[i].category # "" /\ ~safe_int(row.cols[i].cell).ok
RECURSIVE SumCells(_)
SumCells(cols) ==
    IF cols = <<>> THEN 0
    ELSE safe_int(cols[1].cell).v + SumCells(Tail(cols))
collect_usercount_usage(row, cat) ==
    SumCells(SelectSeq(row.cols, LAMBDA c : c.used /\ c.category = cat /\ cat # ""))

\* Faulty variant: only the four known buckets are added up.
UsageTotalKnown(row) ==
    collect_usercount_usage(row, "printer:bw") + collect_usercount_usage(row, "printer:color")
        + collect_usercount_usage(row, "copy:bw") + collect_usercount_usage(row, "copy:color")

UsageTotal(row) == SumCells(UsedColumns(row))

\* known_sum = print_bw + print_color + copy_bw + copy_color
KnownSum(row) ==
    collect_usercount_usage(row, "printer:bw") + collect_usercount_usage(row, "printer:color")
        + collect_usercount_usage(row, "copy:bw") + collect_usercount_usage(row, "copy:color")

\* The last "_"-separated part of the file stem, by the format it is written
\* in; datetime.strptime(ts_str, "%Y%m%d-%H%M%S") raises ValueError on any
\* other format.
StampPart(t) == [fmt |-> "%Y%m%d-%H%M%S", t |-> t]
DatePart == [fmt |-> "%Y%m%d", t |-> 1]
WordPart == [fmt |-> "word", t |-> 0]
StrptimeStamp(part) ==
    IF part.fmt = "%Y%m%d-%H%M%S" THEN [ok |-> TRUE, t |-> part.t]
    ELSE [ok |-> FALSE, t |-> 0]

\* Faulty variant: the file name is not looked at.
SnapshotTimeNow(part, clock) == clock

\* timestamp = datetime.now(); try: timestamp = strptime(...) except
\* (ValueError, IndexError): pass
SnapshotTime(part, clock) ==
    IF StrptimeStamp(part).ok THEN StrptimeStamp(part).t ELSE clock

\* The tuple appended to values for one row of the file.
CountValues(printer_addr, row, timestamp) ==
    [printer_addr |-> printer_addr,
     user_name |-> normalize_name(row.name, "N/A"),
     print_bw |-> collect_usercount_usage(row, "printer:bw"),
     print_color |-> collect_usercount_usage(row, "printer:color"),
     copy_bw |-> collect_usercount_usage(row, "copy:bw"),
     copy_color |-> collect_usercount_usage(row, "copy:color"),
     other_usage |-> UsageTotal(row) - KnownSum(row),
     total_pages |-> UsageTotal(row),
     snapshot_time |-> timestamp]

\* Faulty variant: rows of total 0 are stored too.
KeptAlways(v) == TRUE

\* if total == 0: continue
Kept(v) == v.total_pages # 0

\* values, in the order of the rows of the file.
CountBatch(printer_addr, rows, timestamp) ==
    SelectSeq([i \in 1..Len(rows) |-> CountValues(printer_addr, rows[i], timestamp)], Kept)

\* cursor.executemany(sql, values) of an INSERT: the rows are sent as
\* multi-row INSERT statements, each as long as the statement length of the
\* driver allows -- StmtRows rows in the model.  The connection is in
\* autocommit mode: a statement that succeeds is committed, a statement that
\* fails changes nothing and raises, and no later statement is sent.
StmtRows == 2

\* The statements the batch is sent in, and the rows of the first k of them.
Statements(values) == (Len(values) + StmtRows - 1) \div StmtRows
RowsOfStatements(values, k) ==
    SubSeq(values, 1, IF k * StmtRows < Len(values) THEN k * StmtRows ELSE Len(values))

InsertStatements(table, tbl, vs) ==
    IF table = "job_logs" THEN ExecuteMany(tbl, vs) ELSE tbl \o vs

\* fail = k: statement k raises; fail = 0: none does.
FailsAt(values, fail) == fail >= 1 /\ fail <= Statements(values)
SendStatements(table, tbl, values, fail) ==
    InsertStatements(table, tbl,
        IF FailsAt(values, fail) THEN RowsOfStatements(values, fail - 1) ELSE values)

\* sync_usercount_to_db(path, printer_addr) at wall-clock time clock raises:
\* a cell makes safe_int raise, or a statement fails.
SyncCountsRaises(file, fail) ==
    /\ file.rows # <<>>
    /\ \/ \E i \in 1..Len(file.rows) : UsageRaises(file.rows[i])
       \/ FailsAt(CountBatch(<<>>, file.rows, 0), fail)

\* The table after sync_usercount_to_db(path, printer_addr).
sync_usercount_to_db(tbl, file, printer_addr, clock, fail) ==
    IF \E i \in 1..Len(file.rows) : UsageRaises(file.rows[i]) THEN tbl
    ELSE SendStatements("user_counts", tbl,
             CountBatch(printer_addr, file.rows, SnapshotTime(file.stamp, clock)), fail)

\* The item built from one row of the result set.
UsageLabels(r) ==
    {<<"printer:bw", r.print_bw>>, <<"printer:color", r.print_color>>,
     <<"copy:bw", r.copy_bw>>, <<"copy:color", r.copy_color>>,
     <<"other", r.other_usage>>}
CountItem(r) ==
    [name |-> r.user_name, total |-> r.total_pages,
     usage |-> {u \in UsageLabels(r) : u[2] > 0},
     snapshot_time |-> r.snapshot_time]

\* Faulty variant: MIN(snapshot_time).
EarliestOf(tbl, printer_addr) ==
    LET mine == SelectSeq(tbl, LAMBDA r : r.printer_addr = printer_addr)
    IN  CHOOSE t \in {mine[i].snapshot_time : i \in 1..Len(mine)} :
            \A i \in 1..Len(mine) : mine[i].snapshot_time >= t

\* SELECT MAX(snapshot_time) FROM user_counts WHERE printer_addr = %s, for a
\* printer that has rows.
LatestOf(tbl, printer_addr) ==
    LET mine == SelectSeq(tbl, LAMBDA r : r.printer_addr = printer_addr)
    IN  CHOOSE t \in {mine[i].snapshot_time : i \in 1..Len(mine)} :
            \A i \in 1..Len(mine) : mine[i].snapshot_time <= t

\* fetch_latest_user_counts(printer_addr, None, show_zero): the results, in
\* the order of ORDER BY total_pages DESC (rows of equal total in table order;
\* the server may order them otherwise).
fetch_latest_user_counts(tbl, printer_addr, show_zero) ==
    IF \A i \in 1..Len(tbl) : tbl[i].printer_addr # printer_addr THEN <<>>
    ELSE LET hits == SelectSeq(tbl, LAMBDA r :
                        /\ r.printer_addr = printer_addr
                        /\ r.snapshot_time = LatestOf(tbl, printer_addr)
                        /\ (show_zero \/ r.total_pages > 0))
             order == SortedDesc([i \in 1..Len(hits) |-> <<hits[i].total_pages, 0>>],
                                 Len(hits))
         IN  [i \in 1..Len(hits) |-> CountItem(hits[order[i]])]

\* Rows of a user-count export: a user with pages in three categories and a
\* limit column; a user with no pages; a row without name whose category is
\* spelled in two headers; a user with a thousands separator, named like the
\* first but for the case; a user with a count that float() reads as infinite.
RowAlice ==
    [name |-> "Alice",
     cols |-> <<Column("printer:bw", TRUE, <<"3">>), Column("printer:color", TRUE, <<"1">>),
                Column("scan:bw", TRUE, <<"2">>), Column("printer:bw", FALSE, <<"7">>)>>]
RowBob ==
    [name |-> " bob ",
     cols |-> <<Column("printer:bw", TRUE, <<"0">>), Column("copy:bw", TRUE, <<"N", "/", "A">>),
                Column("copy:bw", FALSE, <<"7">>)>>]
RowNoName ==
    [name |-> None,
     cols |-> <<Column("copy:bw", TRUE, <<"1">>), Column("copy:bw", TRUE, <<"1">>),
                Column("", TRUE, <<"7">>)>>]
RowAliceLower ==
    [name |-> "alice",
     cols |-> <<Column("copy:color", TRUE, <<"1", ",", "7">>)>>]
RowInf ==
    [name |-> "eve",
     cols |-> <<Column("printer:bw", TRUE, <<"i", "n", "f">>)>>]

UcFile(part, rows) == [stamp |-> part, rows |-> rows]
UcFiles ==
    {UcFile(StampPart(1), <<RowAlice, RowNoName, RowAliceLower>>),
     UcFile(StampPart(2), <<RowBob, RowNoName>>),
     UcFile(DatePart, <<RowAlice, RowBob>>),
     UcFile(WordPart, <<RowBob>>),
     UcFile(StampPart(2), <<RowAliceLower, RowInf>>),
     UcFile(StampPart(1), <<>>)}

CountsFrame == UNCHANGED <<fleetVars, ingestVars, triggerVars, callVars, cacheVars, storeVars>>

\* sync_usercount_to_db(path, printer_addr)
SyncCounts ==
    /\ syncs < MaxSnapshots
    /\ \E f \in UcFiles, p \in Printers, fail \in 0..2 :
          /\ user_counts' = sync_usercount_to_db(user_counts, f, p, now, fail)
          /\ lastSync' = [done |-> TRUE, file |-> f, printer |-> p,
                          raised |-> SyncCountsRaises(f, fail)]
    /\ syncs' = syncs + 1
    /\ lastQuery' = NoQuery
    /\ CountsFrame

\* fetch_latest_user_counts(printer_addr, None, show_zero)
FetchLatest ==
    /\ \E p \in Printers, z \in BOOLEAN :
          lastQuery' = [asked |-> TRUE, printer |-> p, show_zero |-> z,
                        items |-> fetch_latest_user_counts(user_counts, p, z)]
    /\ UNCHANGED <<user_counts, syncs, lastSync>>
    /\ CountsFrame

\* The wall clock of the ingesting process moves on.
CountsTick ==
    /\ now < MaxTime
    /\ now' = now + 1
    /\ UNCHANGED <<pc, runs, selected, idx, trace, client, op, attempt, last, calls,
                   sleeps, retState, result, raised, tok1, tok2, reqlog, files>>
    /\ UNCHANGED <<ingestVars, triggerVars, libVars>>

InitCounts ==
    FleetInit /\ files = {} /\ IngestIdle /\ TriggersIdle /\ CallIdle /\ CacheIdle
        /\ CountsIdle /\ StoreIdle
NextCounts ==
    \/ SyncCounts
    \/ FetchLatest
    \/ CountsTick
SpecCounts == InitCounts /\ [][NextCounts]_vars

\* The rows the latest ingest added to the table.
AddedRows == SubSeq(user_counts', Len(user_counts) + 1, Len(user_counts'))
Synced == syncs' = syncs + 1

\* C23: the rows a user-count file adds to the store all carry one snapshot
\* time: the time written in the last part of the file name in the format
\* YYYYMMDD-HHMMSS, or the current time when that part is in another format;
\* a file name that does not parse makes nothing raise (an ingest that
\* raises had a cell that safe_int rejects, or did not store all its rows).
C23_Step ==
    Synced =>
        /\ \A i \in 1..Len(AddedRows) :
              /\ AddedRows[i].printer_addr = lastSync'.printer
              /\ AddedRows[i].snapshot_time =
                    IF lastSync'.file.stamp.fmt = "%Y%m%d-%H%M%S"
                      THEN lastSync'.file.stamp.t ELSE now
        /\ lastSync'.raised =>
              \/ \E i \in 1..Len(lastSync'.file.rows) : UsageRaises(lastSync'.file.rows[i])
              \/ Len(AddedRows) < Cardinality({i \in 1..Len(lastSync'.file.rows) :
                                                  UsageTotal(lastSync'.file.rows[i]) # 0})
C23_SnapshotTime == [][C23_Step]_vars

\* A file whose name ends in a date without a time of day was ingested at
\* time 3 without raising, and its row is stored with that time.
C23_Witness ==
    /\ lastSync.done /\ ~lastSync.raised
    /\ lastSync.file.stamp = DatePart
    /\ \E i \in 1..Len(user_counts) : user_counts[i].snapshot_time = 3

\* C24: rows of total 0 are dropped at ingest, so every stored row has a total
\* other than 0, unless the caller asks for the rows of total 0 (show_zero):
\* then the users of total 0 of the snapshot are kept and returned.
C24_ZeroTotals ==
    /\ \A i \in 1..Len(user_counts) : user_counts[i].total_pages # 0
    /\ (lastQuery.asked /\ lastQuery.show_zero /\ syncs = 1 /\ ~lastSync.raised
          /\ lastSync.printer = lastQuery.printer) =>
          \A i \in 1..Len(lastSync.file.rows) :
              \E k \in 1..Len(lastQuery.items) :
                  lastQuery.items[k].name = normalize_name(lastSync.file.rows[i].name, "N/A")

\* C25: the history of user counts is append-only -- an ingest leaves every
\* stored row, of any printer and any snapshot time, as it is and where it
\* is -- and the items of the latest-snapshot query of a printer are rows of
\* that printer whose snapshot time is the greatest stored for the printer.
C25_Step ==
    /\ Len(user_counts') >= Len(user_counts)
    /\ SubSeq(user_counts', 1, Len(user_counts)) = user_counts
C25_Latest ==
    lastQuery.asked =>
        \A k \in 1..Len(lastQuery.items) :
            /\ \E i \in 1..Len(user_counts) :
                  /\ user_counts[i].printer_addr = lastQuery.printer
                  /\ user_counts[i].user_name = lastQuery.items[k].name
                  /\ user_counts[i].total_pages = lastQuery.items[k].total
                  /\ user_counts[i].snapshot_time = lastQuery.items[k].snapshot_time
            /\ \A i \in 1..Len(user_counts) :
                  user_counts[i].printer_addr = lastQuery.printer
                      => user_counts[i].snapshot_time <= lastQuery.items[k].snapshot_time
C25_AppendOnly == [][C25_Step]_vars /\ []C25_Latest

\* The printer asked for has rows of two snapshot times and the query
\* returned rows.
C25_Witness ==
    /\ lastQuery.asked /\ lastQuery.items # <<>>
    /\ \E i, j \in 1..Len(user_counts) :
          /\ user_counts[i].printer_addr = lastQuery.printer
          /\ user_counts[j].printer_addr = lastQuery.printer
          /\ user_counts[i].snapshot_time < user_counts[j].snapshot_time

(***************************************************************************)
(* SpecStore: the ingests of one run of download_exports -- for each       *)
(* printer the user-count file, then the job-log file -- with any INSERT   *)
(* statement of a batch failing.  The downloads succeed.                   *)
(***************************************************************************)

\* sync_csv_to_db(path, printer_addr) when statement number `fail` of the
\* batch raises (0: none does): the table afterwards.
sync_csv_to_db_failing(tbl, rows, printer_addr, fail) ==
    IF \E i \in 1..Len(rows) : EntryRaises(rows[i]) THEN tbl
    ELSE SendStatements("job_logs", tbl,
                        BatchValues(printer_addr, joblog_entries(rows)), fail)

SyncCsvRaises(rows, fail) ==
    /\ rows # <<>>
    /\ \/ \E i \in 1..Len(rows) : EntryRaises(rows[i])
       \/ FailsAt(BatchValues(<<>>, joblog_entries(rows)), fail)

\* Job-log files: three jobs, the same three with other cells for the first,
\* one job, one row without a usable start date, and an empty file.
JlFiles ==
    {<<CsvRow(IdZh, StartDash, 1), CsvRow(IdEn, StartSlash, 1), CsvRow(IdEmpty, StartDash, 1)>>,
     <<CsvRow(IdZh, StartSlash, 2), CsvRow(IdEn, StartSlash, 1), CsvRow(IdEmpty, StartDash, 1)>>,
     <<CsvRow(IdZh, StartDash, 1)>>,
     <<CsvRow(IdZh, StartNA, 1)>>,
     <<>>}

StoreFrame == UNCHANGED <<fleetVars, triggerVars, callVars, cacheVars>>

StoreInit ==
    /\ storeSel \in Selections /\ storePos = 1 /\ storeStage = "uc"
    /\ lastIngest = NoIngest

\* uc_count = sync_usercount_to_db(uc, base); an exception ends the work on
\* this printer.
StoreCounts ==
    /\ storePos <= Len(storeSel) /\ storeStage = "uc"
    /\ \E f \in UcFiles, fail \in 0..2 :
          /\ user_counts' = sync_usercount_to_db(user_counts, f, storeSel[storePos], now, fail)
          /\ lastIngest' = [kind |-> "uc", rows |-> f, printer |-> storeSel[storePos],
                            raised |-> SyncCountsRaises(f, fail)]
          /\ storeStage' = IF SyncCountsRaises(f, fail) THEN "uc" ELSE "jl"
          /\ storePos' = IF SyncCountsRaises(f, fail) THEN storePos + 1 ELSE storePos
    /\ syncs' = syncs + 1
    /\ lastSync' = [done |-> TRUE, file |-> lastIngest'.rows,
                    printer |-> lastIngest'.printer, raised |-> lastIngest'.raised]
    /\ UNCHANGED <<storeSel, lastQuery, ingestVars>>
    /\ StoreFrame

\* count = sync_csv_to_db(jl, base); then the next printer.
StoreJobs ==
    /\ storePos <= Len(storeSel) /\ storeStage = "jl"
    /\ \E f \in JlFiles, fail \in 0..2 :
          /\ job_logs' = sync_csv_to_db_failing(job_logs, f, storeSel[storePos], fail)
          /\ lastIngest' = [kind |-> "jl", rows |-> f, printer |-> storeSel[storePos],
                            raised |-> SyncCsvRaises(f, fail)]
    /\ before' = job_logs
    /\ storeStage' = "uc"
    /\ storePos' = storePos + 1
    /\ UNCHANGED <<storeSel, csv, ingests, ingPrinter, countVars>>
    /\ StoreFrame

InitStore ==
    /\ FleetInit /\ files = {} /\ IngestIdle /\ TriggersIdle
    /\ CallIdle /\ CacheIdle /\ CountsIdle /\ StoreInit
NextStore == StoreCounts \/ StoreJobs
SpecStore == InitStore /\ [][NextStore]_vars

\* A step that ingests a file.
Ingested == lastIngest' # lastIngest \/ storePos' # storePos \/ storeStage' # storeStage

\* C22: the ingest of one file is atomic: when it raises, the store is
\* exactly as it was before the ingest, and when it does not, the rows of all
\* eligible entries of the file are in the store.
C22_Step ==
    Ingested =>
        IF lastIngest'.raised
          THEN job_logs' = job_logs /\ user_counts' = user_counts
          ELSE /\ lastIngest'.kind = "jl" =>
                    job_logs' = sync_csv_to_db(job_logs, lastIngest'.rows, lastIngest'.printer)
               /\ lastIngest'.kind = "uc" =>
                    Len(user_counts') - Len(user_counts) =
                        Cardinality({i \in 1..Len(lastIngest'.rows.rows) :
                                        UsageTotal(lastIngest'.rows.rows[i]) # 0})
C22_Atomic == [][C22_Step]_vars

\* C21: an ingest that raises leaves the rows of the files ingested earlier in
\* the run (the store was empty when the run began) in the store, unchanged.
C21_Step ==
    (Ingested /\ lastIngest'.raised) =>
        /\ Len(job_logs') >= Len(job_logs)
        /\ Len(user_counts') >= Len(user_counts)
        /\ \A i \in 1..Len(job_logs) : job_logs'[i] = job_logs[i]
        /\ \A i \in 1..Len(user_counts) : user_counts'[i] = user_counts[i]
C21_EarlierRowsKept == [][C21_Step]_vars

----------------------------------------------------------------------------
\* Sessions, login and retry budgets of a printer's sequence (Spec)

ExportPages == {FormPage(k) : k \in Kinds} \cup {DownloadPage(k) : k \in Kinds}
SendsRequest == reqlog' # reqlog /\ reqlog' # <<>>
SentRequest == reqlog'[Len(reqlog')]
LoginReturned == op = "login" /\ retState = "returned"

\* C31: each iteration of each run makes a client of its own, with a session
\* that is not logged in; an export request is sent only on the session of the
\* client of this printer and this run, after login() has returned on it; no
\* client made for one printer or run is the client of another.
C31_Step ==
    /\ (SendsRequest /\ SentRequest.page \in ExportPages) =>
          /\ client.logged_in
          /\ client.run = runs /\ client.pos = idx /\ client.base = selected[idx]
          /\ client' = client
    /\ (runs' # runs \/ idx' # idx) =>
          /\ ~client'.logged_in
          /\ client'.run = runs' /\ client'.pos = idx' /\ client'.base = selected'[idx']
          /\ <<client'.run, client'.pos>> # <<client.run, client.pos>>
    /\ (client'.logged_in /\ ~client.logged_in) =>
          /\ LoginReturned'
          /\ client' = LoggedIn(client)
C35_AllThree2xx ==
    LoginReturned =>
        /\ Len(reqlog) = 3
        /\ \A i \in 1..3 : Ok2xx(reqlog[i].status)
        /\ ~UrlHasLogin(reqlog[3].url)

\* C35 (amended): login() returns only when the GET of the login page and the
\* POST of the credentials had a 2xx status and the final URL of the
\* verification GET is not the login page; the status of the verification GET
\* is not looked at.
C35_TwoChecked ==
    LoginReturned =>
        /\ Len(reqlog) = 3
        /\ reqlog[1].m = "GET" /\ reqlog[1].page = "login.html" /\ Ok2xx(reqlog[1].status)
        /\ reqlog[2].m = "POST" /\ reqlog[2].page = "login.html" /\ Ok2xx(reqlog[2].status)
        /\ reqlog[3].m = "GET" /\ reqlog[3].page = "main.html"
        /\ ~UrlHasLogin(reqlog[3].url)

\* login() has returned although main.html was answered with status 500.
C35_Witness ==
    /\ LoginReturned /\ Len(reqlog) = 3
    /\ ~Ok2xx(reqlog[3].status)

\* An invocation of the wrapped operation begins.
Invoked == calls' = calls + 1

\* C38: each call of request_with_retry invokes its operation at most
\* RETRY + 1 times, and a printer's sequence calls each of the three
\* operations at most once, in the order login, user count, job log (so at
\* most 3 * (RETRY + 1) invocations); an attempt of an export sends the
\* requests of that export on the client already logged in and none of login;
\* an operation that has returned is not invoked again for the printer.
C38_Step ==
    Invoked =>
        /\ calls' <= RETRY + 1
        /\ Len(reqlog') = 1
        /\ op = "login" =>
              /\ trace = <<"login">>
              /\ reqlog'[1].page = "login.html"
        /\ op = "export_user_count" =>
              /\ trace = <<"login", "export_uc">>
              /\ reqlog'[1].page = FormPage("usercount")
              /\ client.logged_in /\ client' = client
        /\ op = "export_joblog" =>
              /\ trace = <<"login", "export_uc", "ingest_uc", "export_jl">>
              /\ reqlog'[1].page = FormPage("joblog")
              /\ client.logged_in /\ client' = client
C38_Budgets == [][C38_Step]_vars

\* The export of the user counts is in its second attempt, on the session
\* login returned on.
C38_Witness ==
    /\ op = "export_user_count" /\ attempt = 1 /\ calls = 2
    /\ client.logged_in /\ client.pos = idx

----------------------------------------------------------------------------
\* The audit rows and the lock at the end of a run (SpecTriggers, SpecWeb)

Finished(t) == tpc[t] \in {"ended", "raised"}
Accepted(t) ==
    tpc[t] \in {"w_start", "run_init", "run_loop", "w_warm", "w_success",
                "w_warning", "w_error", "w_release"}
Holders == {t \in Triggers : tkind[t] = "web" /\ Accepted(t)}

\* C32: once the trigger of a run has finished (the run over, the lock
\* released) no audit row it created has status running, on whatever way the
\* run ended, the database having executed every statement sent to it.
C32_NoRowLeftRunning ==
    \A t \in Triggers :
        (Finished(t) /\ ~tlost[t]) =>
            \A i \in RowsOf(t) : update_logs[i].status # "running"

\* C34: the lock is held exactly while one accepted request is between its
\* acquire and the end of its finally clause, on whatever path it leaves; the
\* step that frees the lock is the release of the request that holds it; a
\* request is refused only while another holds the lock, and a request with a
\* wrong token or a refused one neither takes nor frees the lock.
C34_Held ==
    /\ download_lock <=> Holders # {}
    /\ Cardinality(Holders) <= 1
    /\ \A t \in Triggers :
          (tkind[t] = "web" /\ tpc[t] \in {"ended", "denied", "rejected"}) => t \notin Holders
C34_Step ==
    /\ (download_lock /\ ~download_lock') =>
          \E t \in Holders : tpc[t] = "w_release" /\ tpc'[t] = "ended"
    /\ \A t \in Triggers :
          /\ (tpc[t] # "rejected" /\ tpc'[t] = "rejected") =>
                /\ Holders \ {t} # {}
                /\ download_lock' = download_lock /\ Holders' = Holders
          /\ (tpc[t] # "denied" /\ tpc'[t] = "denied") =>
                download_lock' = download_lock /\ Holders' = Holders
          /\ (tpc[t] = "w_acquire" /\ Holders = {}) => tpc'[t] \in {"w_acquire", "w_start"}
C34_LockReleased == []C34_Held /\ [][C34_Step]_vars

\* The client of a run left the stream, and the request after it was
\* accepted.
C34_Witness ==
    \E t, u \in Triggers :
        /\ tpc[t] = "ended" /\ terr[t] = "GeneratorExit"
        /\ u \in Holders /\ download_lock

\* C36: a trigger creates at most one audit row, and a row is inserted with
\* status running only.
C36_Step ==
    Len(update_logs') > Len(update_logs) =>
        /\ Len(update_logs') = Len(update_logs) + 1
        /\ update_logs'[Len(update_logs')].status = "running"
        /\ RowsOf(update_logs'[Len(update_logs')].run) = {}
C36_OnlyRunningInserted == [][C36_Step]_vars
\* The pages of the columns 1..n of a row of the file that hold used pages of
\* a category of cats.
RECURSIVE PagesUpTo(_, _, _)
PagesUpTo(row, cats, n) ==
    IF n = 0 THEN 0
    ELSE PagesUpTo(row, cats, n - 1)
            + (IF row.cols[n].used /\ row.cols[n].category \in cats
                 THEN safe_int(row.cols[n].cell).v ELSE 0)
Pages(row, cats) == PagesUpTo(row, cats, Len(row.cols))
UsedCategories(row) ==
    {row.cols[n].category : n \in {m \in 1..Len(row.cols) : row.cols[m].used}} \ {""}
KnownBuckets == {"printer:bw", "printer:color", "copy:bw", "copy:color"}

\* C33: every stored user-count row has print_bw + print_color + copy_bw +
\* copy_color + other_usage = total_pages, and a row an ingest adds comes from
\* a row of the file whose used-page columns add up to its total, with each
\* known bucket holding the pages of its category and other_usage the total
\* minus the four known buckets.
C33_Sum ==
    \A i \in 1..Len(user_counts) :
        user_counts[i].print_bw + user_counts[i].print_color + user_counts[i].copy_bw
            + user_counts[i].copy_color + user_counts[i].other_usage
          = user_counts[i].total_pages
C33_Step ==
    Synced =>
        \A i \in 1..Len(AddedRows) :
            \E j \in 1..Len(lastSync'.file.rows) :
                LET row == lastSync'.file.rows[j]
                    r == AddedRows[i]
                IN  /\ r.user_name = normalize_name(row.name, "N/A")
                    /\ r.total_pages = Pages(row, UsedCategories(row))
                    /\ r.print_bw = Pages(row, {"printer:bw"})
                    /\ r.print_color = Pages(row, {"printer:color"})
                    /\ r.copy_bw = Pages(row, {"copy:bw"})
                    /\ r.copy_color = Pages(row, {"copy:color"})
                    /\ r.other_usage = Pages(row, UsedCategories(row) \ KnownBuckets)
C33_Buckets == []C33_Sum /\ [][C33_Step]_vars

\* A stored row with pages outside the four known buckets: 3 + 1 + 0 + 0 + 2
\* = 6.
C33_Witness ==
    \E i \in 1..Len(user_counts) :
        /\ user_counts[i].other_usage = 2
        /\ user_counts[i].print_bw = 3
        /\ user_counts[i].total_pages = 6

(***************************************************************************)
(* SpecLatest: latest_export_file asked for the artifact of a printer in   *)
(* export directories of any content, before or after their cleanup.       *)
(***************************************************************************)

\* directory.glob(f"{prefix}_{tag}_*.csv"): the name starts with the prefix,
\* "_", the tag and "_"; the "*" matches any text, "_" included.
GlobMatches(prefix, tag, n) ==
    /\ Len(Stem(n)) > Len(tag) + 1
    /\ Stem(n)[1] = prefix
    /\ SubSeq(Stem(n), 2, Len(tag) + 1) = tag

\* The parts of the name that the "*" matched.
GlobRest(n, tag) == SubSeq(Stem(n), Len(tag) + 2, Len(Stem(n)))

\* The first character of the decimal text of a number; the text of a
\* timestamp (now_ts, "%Y%m%d-%H%M%S") starts with the year.
RECURSIVE LeadDigit(_)
LeadDigit(v) == IF v < 10 THEN v ELSE LeadDigit(v \div 10)
YearLead == 2

\* sorted(): the order of two matching paths is the order of their texts, which
\* differ after the tag: timestamps have one width, and a port and a
\* timestamp differ in their first character.
PathAfter(a, b, tag) ==
    LET ra == GlobRest(a, tag)
        rb == GlobRest(b, tag)
    IN  CASE Len(ra) = 1 /\ Len(rb) = 1 -> ra[1] > rb[1]
          [] Len(ra) = 1 /\ Len(rb) > 1 -> YearLead > LeadDigit(rb[1])
          [] Len(ra) > 1 /\ Len(rb) = 1 -> LeadDigit(ra[1]) > YearLead
          [] OTHER -> \/ LeadDigit(ra[1]) > LeadDigit(rb[1])
                      \/ ra[1] = rb[1] /\ ra[Len(ra)] > rb[Len(rb)]

\* matches = sorted(directory.glob(pattern)); matches[-1] if matches else None
\* (None also when the directory does not exist).
latest_export_file(fs, kind, printer) ==
    LET directory == IF kind = "usercount" THEN "usercount" ELSE "joblog"
        tag == host_tag(printer)
        prefix == IF kind = "usercount" THEN "uc" ELSE "joblog"
        matches == {n \in fs : n.dir = directory /\ GlobMatches(prefix, tag, n)}
    IN  IF matches = {} THEN NoPath
        ELSE CHOOSE m \in matches : \A x \in matches \ {m} : PathAfter(m, x, tag)

LatestArgs == [kind : Kinds, printer : CleanupBases \cup {PRINTERS[2]}]
LatestInit ==
    callee = "latest_export_file" /\ arg \in LatestArgs /\ called = FALSE /\ ret = None

LatestExport ==
    /\ callee = "latest_export_file" /\ ~called
    /\ called' = TRUE
    /\ ret' = latest_export_file(files, arg.kind, arg.printer)
    /\ UNCHANGED <<callee, arg>>
    /\ CallFrame

\* The function is called before or after the cleanup that ends a run.
InitLatest ==
    CleanupInit /\ IngestIdle /\ TriggersIdle /\ LatestInit
        /\ CacheIdle /\ CountsIdle /\ StoreIdle
NextLatest ==
    \/ LatestExport
    \/ Cleanup
SpecLatest == InitLatest /\ [][NextLatest]_vars

\* C37: latest_export_file(kind, printer) returns an artifact of that kind
\* whose host tag is host_tag(printer) and whose timestamp is the greatest of
\* the artifacts of that printer and kind, also when the directory holds
\* artifacts of a printer at the same host with a port; it returns none when
\* the printer has no artifact of that kind.
C37_OwnLatest ==
    (callee = "latest_export_file" /\ called) =>
        LET own == ArtifactsOf(files, arg.kind, host_tag(arg.printer)) IN
        IF own = {} THEN ret = NoPath
        ELSE /\ ret \in own
             /\ \A x \in own : x.ts <= ret.ts

\* What the loader of a key prefix returns for a text.
ParseOfKey(k, c) ==
    IF k = "csv_rows" THEN RowsOfText(c) ELSE EntriesOfRows(RowsOfText(c))
StatMatches(entry, file) ==
    entry.cached /\ file.present /\ entry.mtime = file.mtime /\ entry.size = file.size

\* C39: a read whose loader raises leaves the entry of its key as it was:
\* none is added, none replaced.  The cache holds one entry per key, which a
\* load that returned has stored with the stat of the file, so a read that
\* returns -- after a failed one or not -- has parsed the file again or
\* serves an entry whose stat is the stat of the file.
C39_Entries ==
    /\ DOMAIN FILE_CACHE = CachePrefixes
    /\ \A k \in CachePrefixes :
          FILE_CACHE[k].cached =>
             \E c \in Contents : FILE_CACHE[k].data = ParseOfKey(k, c)
C39_Step ==
    /\ (lastRead' # lastRead /\ lastRead'.raised) =>
          FILE_CACHE'[PrefixOf(lastRead'.fn)] = FILE_CACHE[PrefixOf(lastRead'.fn)]
    /\ \A k \in CachePrefixes :
          FILE_CACHE'[k] # FILE_CACHE[k] => StatMatches(FILE_CACHE'[k], disk)
    /\ (lastRead' # lastRead /\ ~lastRead'.raised) =>
          LET k == PrefixOf(lastRead'.fn) IN
          /\ StatMatches(FILE_CACHE'[k], disk)
          /\ lastRead'.data = FILE_CACHE'[k].data
          /\ FILE_CACHE'[k] # FILE_CACHE[k] => ~StatMatches(FILE_CACHE[k], disk)
C39_FailedLoadKeepsCache == []C39_Entries /\ [][C39_Step]_vars

\* The entries of the file were cached, the file was rewritten with a text
\* whose parse raises, and the read of the entries has raised: the rows of
\* the new text are cached, the entries of the old text are still there.
C39_Witness ==
    /\ disk.present /\ disk.content = "x"
    /\ lastRead.fn = "joblog_entries_from_csv" /\ lastRead.raised
    /\ StatMatches(FILE_CACHE["csv_rows"], disk)
    /\ FILE_CACHE["csv_rows"].data = RowsOfText("x")
    /\ FILE_CACHE["joblog_parsed"].cached
    /\ FILE_CACHE["joblog_parsed"].data = EntriesOfRows(RowsOfText("a"))

====
